---- MODULE Spec2Model ----
(***************************************************************************)
(* Huemelody (src/src/Huemelody.ino): the cooperative control loop of the  *)
(* colour-sensing device.  One tick of loop() is three steps of the model: *)
(* handleButton, handleEncoder and the body of loop() (sensing or playback *)
(* continuation, then the audio service).  The globals of the sketch are   *)
(* the fields of the record dev; the clock, the input lines, the sensor    *)
(* and the SD card are the environment, drawn from small sets.             *)
(***************************************************************************)
EXTENDS Integers, Sequences, FiniteSets, TLC

VARIABLES
    dev,      \* the globals and function statics of the sketch, the Audio object included;
              \* dev.ev is the history of the step just taken (intents, playback requests)
    now,      \* millis() as sampled at the start of the tick (it restarts at every boot)
    wall,     \* the time since the first power-on, which bounds the run
    pc,       \* the position in loop(): "handleButton", "handleEncoder", "loopBody", "asleep"
    hold,     \* history: the button hold in progress or last completed
    turns     \* history: the directions the decoder read in the last ticks

vars == <<dev, now, wall, pc, hold, turns>>

-----------------------------------------------------------------------------
(* Program constants *)

MODE_SWITCH_PRESS_DURATION == 3000
SLEEP_PRESS_DURATION == 5000
ROTATION_DEBOUNCE == 10
TRACK_NAVIGATION_DEBOUNCE == 100
MIN_VOLUME == 0
MAX_VOLUME == 21
VOLUME_STEP == 1
COLOR_COUNT_THRESHOLD == 5
COLOR_FAMILY_COUNT == 16
COLOR_RECOGNITION == 1
PAINTER_COLLECTION == 2
DEFAULT_VOLUME == 19
PAINTER_COUNT == 6
PALETTE_SIZE == 5

HIGH == TRUE
LOW == FALSE

(* Bounds of the model *)

MaxSeconds == 8
MaxLongSeconds == 13
MaxValidRotations == 3
MaxBoot == 2
MaxVolumeSeconds == 8
MaxBoundSeconds == 8
MaxBurstTicks == 21

-----------------------------------------------------------------------------
(* Names and asset files.  A colour or painter name is a sequence of       *)
(* characters; a file name is the string snprintf builds from it.          *)

RECURSIVE Join(_)
Join(name) == IF name = <<>> THEN "" ELSE Head(name) \o Join(Tail(name))

BaseColors == <<"R", "O", "Y", "G", "B", "V">>

\* The base colour of a name: a mixed-hue name ("RO3") collapses to its
\* leading base colour ("R"); digits and qualifiers are stripped.
getBaseColorName(colorName) ==
    IF colorName # <<>> /\ \E i \in 1..Len(BaseColors) : BaseColors[i] = Head(colorName)
    THEN <<Head(colorName)>>
    ELSE <<>>

\* The index of the family in colorCounters, -1 for a name of no family.
getColorFamilyIndex(colorName) ==
    LET base == getBaseColorName(colorName)
    IN  IF base = <<>> THEN -1
        ELSE (CHOOSE i \in 1..Len(BaseColors) : BaseColors[i] = base[1]) - 1

PlainFile(colorName) == "/" \o Join(colorName) \o ".mp3"
SpecialFile(baseColor) == "/" \o Join(baseColor) \o "X.mp3"

painterNames ==
    << <<"P","_","D","a","l","i">>, <<"P","_","G","o","g","h">>,
       <<"P","_","M","u","n","c","h">>, <<"P","_","P","i","c","a","s","s","o">>,
       <<"P","_","S","e","u","r","a","t">>, <<"P","_","V","i","n","c","i">> >>


-----------------------------------------------------------------------------
(* Threshold tables.  A rule is an inclusive range per channel with its    *)
(* identity; the tables are scanned in order and the first match wins.     *)

Rule(rMin, rMax, gMin, gMax, bMin, bMax, id) ==
    [rMin |-> rMin, rMax |-> rMax, gMin |-> gMin, gMax |-> gMax,
     bMin |-> bMin, bMax |-> bMax, colorId |-> id, audioFile |-> id]

colorThresholds ==
    << Rule(200, 255, 0, 50, 0, 50, <<"R","1">>),
       Rule(0, 0, 0, 0, 0, 0, <<"R","2">>),
       Rule(200, 255, 40, 120, 0, 50, <<"R","O","1">>),
       Rule(0, 50, 0, 50, 200, 255, <<"B","1">>),
       Rule(0, 0, 200, 255, 0, 50, <<"G","1">>) >>

PRule(rMin, rMax, gMin, gMax, bMin, bMax, painter, index) ==
    [rMin |-> rMin, rMax |-> rMax, gMin |-> gMin, gMax |-> gMax,
     bMin |-> bMin, bMax |-> bMax, painterId |-> painter, colorIndex |-> index]

\* One palette: sub-element i is the band r in 10i..10i+5 of the theme's g band.
Palette(painter, gMin, gMax) ==
    [i \in 1..PALETTE_SIZE |-> PRule(10 * i, 10 * i + 5, gMin, gMax, 100, 150, painter, i)]

daliColors == Palette("Dali", 0, 20)
goghColors == Palette("Gogh", 15, 40)
munchColors == Palette("Munch", 50, 60)
picassoColors == Palette("Picasso", 70, 80)
seuratColors == Palette("Seurat", 90, 100)
\* The bands of this palette overlap: r in 10i..10i+2 lies in the rules i-1 and i.
vinciColors ==
    [i \in 1..PALETTE_SIZE |-> PRule(10 * i, 10 * i + 12, 110, 120, 100, 150, "Vinci", i)]

\* Samples of the sensor: <<r, g, b>> after calibration.
NoColor == <<100, 100, 100>>
DetectionSamples == {<<220, 20, 20>>, <<220, 100, 20>>, <<220, 45, 20>>, <<20, 20, 220>>}
DaliSample(i) == <<10 * i, 5, 128>>
DaliGoghSample(i) == <<10 * i, 18, 128>>
VinciSample(i) == <<10 * i, 115, 128>>

TrackFiles == {PlainFile(colorThresholds[i].audioFile) : i \in 1..Len(colorThresholds)}

-----------------------------------------------------------------------------
(* The state after the global initialisers and setup() have run.           *)

NoCounters == [i \in 0..(COLOR_FAMILY_COUNT - 1) |-> 0]
NoCollection == [p \in 0..(PAINTER_COUNT - 1) |-> [c \in 0..(PALETTE_SIZE - 1) |-> FALSE]]

\* millis() when setup() returns: the delays of setup() and playWakeUpAnimation().
SetupMillis == 100 + 25 * 50 + 2 * (150 + 150)

BootState(boots) ==
    [ currentMode |-> COLOR_RECOGNITION,
      isColorDetectionEnabled |-> FALSE,
      isLooping |-> FALSE,
      currentPlayingFile |-> "",
      currentVolume |-> DEFAULT_VOLUME,
      lastButtonState |-> HIGH,
      buttonPressStartTime |-> 0,
      isLongPressing |-> FALSE,
      sleepPressStartTime |-> 0,
      isSleepPressing |-> FALSE,
      isEncoderPressed |-> FALSE,
      volumeAdjustedWhilePressed |-> FALSE,
      lastRotationTime |-> 0,
      lastTrackNavigationTime |-> 0,
      colorCounters |-> NoCounters,
      painterCollectionStatus |-> NoCollection,
      lastEncoded |-> 0,
      lastDir |-> 0,
      validRotations |-> 0,
      rgb |-> <<0, 0, 0>>,
      bootCount |-> boots,
      audioRunning |-> FALSE,
      audioFile |-> "",
      audioVolume |-> DEFAULT_VOLUME,
      sensorEnabled |-> TRUE,
      wakeArmed |-> FALSE,
      halted |-> FALSE,
      ev |-> <<>> ]

\* The step's history: what the handler did, in order.
Emit(s, op, arg) == [s EXCEPT !.ev = Append(@, [op |-> op, arg |-> arg])]

Ops(s, op) == {i \in 1..Len(s.ev) : s.ev[i].op = op}
Count(s, op) == Cardinality(Ops(s, op))
Requests(s) == [i \in 1..Count(s, "request") |->
                   s.ev[CHOOSE k \in Ops(s, "request") :
                            Cardinality({j \in Ops(s, "request") : j <= k}) = i].arg]


-----------------------------------------------------------------------------
(* Audio playback.  sd is the SD card as the call finds it: sd.absent are  *)
(* the files SD.exists() does not find, sd.broken the files connecttoFS()  *)
(* fails to open.                                                          *)

\* The event names the asset that was playing ("" when none was).
stopSong(s) ==
    Emit([s EXCEPT !.audioRunning = FALSE], "stop", IF s.audioRunning THEN s.audioFile ELSE "")

\* The event says whether the grid held entries ("entries") or none ("").
resetAllPainterCollections(s) ==
    Emit([s EXCEPT !.painterCollectionStatus = NoCollection], "gridReset",
         IF s.painterCollectionStatus = NoCollection THEN "" ELSE "entries")

connecttoFS(s, filename, sd) ==
    IF filename \in sd.absent \cup sd.broken
    THEN Emit([s EXCEPT !.audioRunning = FALSE], "playFailed", filename)
    ELSE Emit([s EXCEPT !.audioRunning = TRUE, !.audioFile = filename], "play", filename)

\* Mutant: the track is opened without the existence check.
playTrack_NoExistsCheck(s, filename, sd) ==
    LET req == Emit(s, "request", filename)
        saved == [stopSong(req) EXCEPT !.currentPlayingFile = filename]
        conn == connecttoFS(saved, saved.currentPlayingFile, sd)
    IN  IF ~conn.audioRunning
        THEN [conn EXCEPT !.isLooping = FALSE]
        ELSE LET looping == [conn EXCEPT !.isLooping = TRUE]
             IN  IF looping.currentMode = PAINTER_COLLECTION
                 THEN resetAllPainterCollections(looping)
                 ELSE looping

\* Mutant: a track that starts leaves the grid as it is.
playTrack_NoGridReset(s, filename, sd) ==
    LET req == Emit(s, "request", filename)
    IN  IF filename \in sd.absent
        THEN Emit(req, "missing", filename)
        ELSE LET found == Emit(req, "exists", filename)
                 saved == [stopSong(found) EXCEPT !.currentPlayingFile = filename]
                 conn == connecttoFS(saved, saved.currentPlayingFile, sd)
             IN  IF ~conn.audioRunning
                 THEN [conn EXCEPT !.isLooping = FALSE]
                 ELSE [conn EXCEPT !.isLooping = TRUE]

playTrack(s, filename, sd) ==
    LET req == Emit(s, "request", filename)
    IN  IF filename \in sd.absent
        THEN Emit(req, "missing", filename)
        ELSE LET found == Emit(req, "exists", filename)
                 saved == [stopSong(found) EXCEPT !.currentPlayingFile = filename]
                 conn == connecttoFS(saved, saved.currentPlayingFile, sd)
             IN  IF ~conn.audioRunning
                 THEN [conn EXCEPT !.isLooping = FALSE]
                 ELSE LET looping == [conn EXCEPT !.isLooping = TRUE]
                      IN  IF looping.currentMode = PAINTER_COLLECTION
                          THEN resetAllPainterCollections(looping)
                          ELSE looping

\* Mutant: the trip requests the special asset and keeps the count.
playAudio_NoReset(s, colorName, sd) ==
    LET baseColor == getBaseColorName(colorName)
        colorIndex == getColorFamilyIndex(colorName)
    IN  IF s.currentMode = COLOR_RECOGNITION /\ colorIndex >= 0
        THEN LET counted == [s EXCEPT !.colorCounters[colorIndex] = (@ + 1) % 256]
             IN  IF counted.colorCounters[colorIndex] >= COLOR_COUNT_THRESHOLD
                 THEN LET tripped == [counted EXCEPT !.currentPlayingFile = SpecialFile(baseColor)]
                      IN  playTrack(tripped, tripped.currentPlayingFile, sd)
                 ELSE LET plain == [counted EXCEPT !.currentPlayingFile = PlainFile(colorName)]
                      IN  playTrack(plain, plain.currentPlayingFile, sd)
        ELSE LET direct == [s EXCEPT !.currentPlayingFile = PlainFile(colorName)]
             IN  playTrack(direct, direct.currentPlayingFile, sd)

\* Mutant: the special asset trips one match late.
playAudio_LateTrip(s, colorName, sd) ==
    LET baseColor == getBaseColorName(colorName)
        colorIndex == getColorFamilyIndex(colorName)
    IN  IF s.currentMode = COLOR_RECOGNITION /\ colorIndex >= 0
        THEN LET counted == [s EXCEPT !.colorCounters[colorIndex] = (@ + 1) % 256]
             IN  IF counted.colorCounters[colorIndex] > COLOR_COUNT_THRESHOLD
                 THEN LET tripped == [counted EXCEPT !.colorCounters[colorIndex] = 0,
                                                     !.currentPlayingFile = SpecialFile(baseColor)]
                      IN  playTrack(tripped, tripped.currentPlayingFile, sd)
                 ELSE LET plain == [counted EXCEPT !.currentPlayingFile = PlainFile(colorName)]
                      IN  playTrack(plain, plain.currentPlayingFile, sd)
        ELSE LET direct == [s EXCEPT !.currentPlayingFile = PlainFile(colorName)]
             IN  playTrack(direct, direct.currentPlayingFile, sd)

\* Mutant: a match of one family restarts the counts of the other families.
playAudio_RestartsOthers(s, colorName, sd) ==
    LET baseColor == getBaseColorName(colorName)
        colorIndex == getColorFamilyIndex(colorName)
    IN  IF s.currentMode = COLOR_RECOGNITION /\ colorIndex >= 0
        THEN LET counted == [s EXCEPT !.colorCounters =
                                [F \in DOMAIN @ |-> IF F = colorIndex THEN (@[F] + 1) % 256 ELSE 0]]
             IN  IF counted.colorCounters[colorIndex] >= COLOR_COUNT_THRESHOLD
                 THEN LET tripped == [counted EXCEPT !.colorCounters[colorIndex] = 0,
                                                     !.currentPlayingFile = SpecialFile(baseColor)]
                      IN  playTrack(tripped, tripped.currentPlayingFile, sd)
                 ELSE LET plain == [counted EXCEPT !.currentPlayingFile = PlainFile(colorName)]
                      IN  playTrack(plain, plain.currentPlayingFile, sd)
        ELSE LET direct == [s EXCEPT !.currentPlayingFile = PlainFile(colorName)]
             IN  playTrack(direct, direct.currentPlayingFile, sd)

playAudio(s, colorName, sd) ==
    LET baseColor == getBaseColorName(colorName)
        colorIndex == getColorFamilyIndex(colorName)
    IN  IF s.currentMode = COLOR_RECOGNITION /\ colorIndex >= 0
        THEN LET counted == [s EXCEPT !.colorCounters[colorIndex] = (@ + 1) % 256]
             IN  IF counted.colorCounters[colorIndex] >= COLOR_COUNT_THRESHOLD
                 THEN LET tripped == [counted EXCEPT !.colorCounters[colorIndex] = 0,
                                                     !.currentPlayingFile = SpecialFile(baseColor)]
                      IN  playTrack(tripped, tripped.currentPlayingFile, sd)
                 ELSE LET plain == [counted EXCEPT !.currentPlayingFile = PlainFile(colorName)]
                      IN  playTrack(plain, plain.currentPlayingFile, sd)
        ELSE LET direct == [s EXCEPT !.currentPlayingFile = PlainFile(colorName)]
             IN  playTrack(direct, direct.currentPlayingFile, sd)

-----------------------------------------------------------------------------
(* Classification *)

InRange(rgb, t) ==
    /\ rgb[1] >= t.rMin /\ rgb[1] <= t.rMax
    /\ rgb[2] >= t.gMin /\ rgb[2] <= t.gMax
    /\ rgb[3] >= t.bMin /\ rgb[3] <= t.bMax

RECURSIVE checkColorFrom(_, _, _, _, _)
checkColorFrom(s, thresholds, count, i, sd) ==
    IF i > count THEN s
    ELSE LET t == thresholds[i]
         IN  IF t.rMin = 0 /\ t.rMax = 0
             THEN checkColorFrom(s, thresholds, count, i + 1, sd)
             ELSE IF InRange(s.rgb, t)
                  THEN playAudio(Emit(s, "match", Join(t.colorId)), t.audioFile, sd)
                  ELSE checkColorFrom(s, thresholds, count, i + 1, sd)

checkColor(s, thresholds, count, sd) ==
    checkColorFrom(Emit(s, "classify", ""), thresholds, count, 1, sd)

\* The final pass of a toggle-off in Detection mode: one scan of the flat table.
checkColorAndPlayAudio(s, sd) == checkColor(s, colorThresholds, Len(colorThresholds), sd)

PainterIndex(painterId) ==
    CASE painterId = "Dali" -> 0
      [] painterId = "Gogh" -> 1
      [] painterId = "Munch" -> 2
      [] painterId = "Picasso" -> 3
      [] painterId = "Seurat" -> 4
      [] painterId = "Vinci" -> 5
      [] OTHER -> -1

RECURSIVE checkPainterColorFrom(_, _, _, _)
checkPainterColorFrom(s, thresholds, count, i) ==
    IF i > count THEN s
    ELSE LET t == thresholds[i]
             painterIndex == PainterIndex(t.painterId)
         IN  IF InRange(s.rgb, t) /\ painterIndex >= 0
             THEN Emit([s EXCEPT !.painterCollectionStatus[painterIndex][t.colorIndex - 1] = TRUE],
                       "collected", t.painterId)
             ELSE checkPainterColorFrom(s, thresholds, count, i + 1)

checkPainterColor(s, thresholds, count) == checkPainterColorFrom(s, thresholds, count, 1)

RowComplete(s, painter) ==
    \A color \in 0..(PALETTE_SIZE - 1) : s.painterCollectionStatus[painter][color]

RECURSIVE checkPainterCompletionFrom_NoRowReset(_, _, _)
\* Mutant: a completed theme keeps its row.
checkPainterCompletionFrom_NoRowReset(s, painter, sd) ==
    IF painter >= PAINTER_COUNT THEN s
    ELSE IF RowComplete(s, painter)
         THEN LET played == playAudio(Emit(s, "complete", Join(painterNames[painter + 1])),
                                      painterNames[painter + 1], sd)
                  idle == [played EXCEPT !.isColorDetectionEnabled = FALSE]
              IN  checkPainterCompletionFrom_NoRowReset(idle, painter + 1, sd)
         ELSE checkPainterCompletionFrom_NoRowReset(s, painter + 1, sd)

RECURSIVE checkPainterCompletionFrom_KeepsSensing(_, _, _)
\* Mutant: a completed theme does not switch sensing off.
checkPainterCompletionFrom_KeepsSensing(s, painter, sd) ==
    IF painter >= PAINTER_COUNT THEN s
    ELSE IF RowComplete(s, painter)
         THEN LET played == playAudio(Emit(s, "complete", Join(painterNames[painter + 1])),
                                      painterNames[painter + 1], sd)
                  idle == [played EXCEPT !.painterCollectionStatus[painter] =
                                             [c \in 0..(PALETTE_SIZE - 1) |-> FALSE]]
              IN  checkPainterCompletionFrom_KeepsSensing(idle, painter + 1, sd)
         ELSE checkPainterCompletionFrom_KeepsSensing(s, painter + 1, sd)

RECURSIVE checkPainterCompletionFrom(_, _, _)
checkPainterCompletionFrom(s, painter, sd) ==
    IF painter >= PAINTER_COUNT THEN s
    ELSE IF RowComplete(s, painter)
         THEN LET played == playAudio(Emit(s, "complete", Join(painterNames[painter + 1])),
                                      painterNames[painter + 1], sd)
                  idle == [played EXCEPT !.isColorDetectionEnabled = FALSE,
                                         !.painterCollectionStatus[painter] =
                                             [c \in 0..(PALETTE_SIZE - 1) |-> FALSE]]
              IN  checkPainterCompletionFrom(idle, painter + 1, sd)
         ELSE checkPainterCompletionFrom(s, painter + 1, sd)

checkPainterCompletion(s, sd) == checkPainterCompletionFrom(s, 0, sd)


-----------------------------------------------------------------------------
(* Mode management and power management *)

\* Mutant: the mode switch does not stop the playback.
switchMode_NoStop(s) ==
    LET stopped == [s EXCEPT !.isLooping = FALSE, !.currentPlayingFile = ""]
        toggled == [stopped EXCEPT !.currentMode =
                        IF @ = COLOR_RECOGNITION THEN PAINTER_COLLECTION ELSE COLOR_RECOGNITION,
                                       !.colorCounters = NoCounters]
        fired == Emit(toggled, "switchMode", "")
    IN  IF fired.currentMode = PAINTER_COLLECTION
        THEN resetAllPainterCollections(fired)
        ELSE fired

\* Mutant: the mode switch leaves the repeat counters as they are.
switchMode_KeepsCounters(s) ==
    LET stopped == [stopSong(s) EXCEPT !.isLooping = FALSE, !.currentPlayingFile = ""]
        toggled == [stopped EXCEPT !.currentMode =
                        IF @ = COLOR_RECOGNITION THEN PAINTER_COLLECTION ELSE COLOR_RECOGNITION]
        fired == Emit(toggled, "switchMode", "")
    IN  IF fired.currentMode = PAINTER_COLLECTION
        THEN resetAllPainterCollections(fired)
        ELSE fired

switchMode(s) ==
    LET stopped == [stopSong(s) EXCEPT !.isLooping = FALSE, !.currentPlayingFile = ""]
        toggled == [stopped EXCEPT !.currentMode =
                        IF @ = COLOR_RECOGNITION THEN PAINTER_COLLECTION ELSE COLOR_RECOGNITION,
                                       !.colorCounters = NoCounters]
        fired == Emit(toggled, "switchMode", "")
    IN  IF fired.currentMode = PAINTER_COLLECTION
        THEN resetAllPainterCollections(fired)
        ELSE fired

\* Mutant: the sensor is disabled before the playback is stopped.
prepareForSleep_SensorFirst(s) ==
    LET dark == Emit(s, "windDown", "")
        blind == Emit([dark EXCEPT !.sensorEnabled = FALSE], "sensorOff", "")
    IN  stopSong(blind)

prepareForSleep(s) ==
    LET dark == Emit(s, "windDown", "")
        quiet == stopSong(dark)
    IN  Emit([quiet EXCEPT !.sensorEnabled = FALSE], "sensorOff", "")

\* Mutant: the sleep call returns and the loop goes on.
enterDeepSleep_Returns(s) ==
    Emit([s EXCEPT !.wakeArmed = TRUE], "armWake", "")

\* esp_deep_sleep_start() does not return: the device halts until the next boot.
enterDeepSleep(s) ==
    LET armed == Emit([s EXCEPT !.wakeArmed = TRUE], "armWake", "")
    IN  Emit([armed EXCEPT !.halted = TRUE], "deepSleep", "")

-----------------------------------------------------------------------------
(* handleButton: cur is the level of the button line, t is millis().       *)

PressEdge(s, cur, t) ==
    IF cur = LOW /\ s.lastButtonState = HIGH
    THEN Emit([s EXCEPT !.buttonPressStartTime = t,
                        !.isLongPressing = TRUE,
                        !.sleepPressStartTime = t,
                        !.isSleepPressing = TRUE,
                        !.isEncoderPressed = TRUE,
                        !.volumeAdjustedWhilePressed = FALSE], "press", "")
    ELSE s

\* Mutant: a volume adjustment during the hold suppresses the sleep as well.
SleepTrigger_RespectsFlag(s, cur, t) ==
    IF s.isSleepPressing /\ cur = LOW /\ t - s.sleepPressStartTime >= SLEEP_PRESS_DURATION
       /\ ~s.volumeAdjustedWhilePressed
    THEN enterDeepSleep(prepareForSleep(Emit(s, "sleep", "")))
    ELSE s

SleepTrigger(s, cur, t) ==
    IF s.isSleepPressing /\ cur = LOW /\ t - s.sleepPressStartTime >= SLEEP_PRESS_DURATION
    THEN enterDeepSleep(prepareForSleep(Emit(s, "sleep", "")))
    ELSE s

\* Mutant: the hold is not disarmed after the mode-switch check.
LongPress_NoDisarm(s, cur, t) ==
    IF s.isLongPressing /\ cur = LOW /\ t - s.buttonPressStartTime >= MODE_SWITCH_PRESS_DURATION
    THEN IF ~s.volumeAdjustedWhilePressed THEN switchMode(s) ELSE s
    ELSE s

\* Mutant: the mode switch is timed against the sleep threshold.
LongPress_LateThreshold(s, cur, t) ==
    IF s.isLongPressing /\ cur = LOW /\ t - s.buttonPressStartTime >= SLEEP_PRESS_DURATION
    THEN LET switched == IF ~s.volumeAdjustedWhilePressed THEN switchMode(s) ELSE s
         IN  [switched EXCEPT !.isLongPressing = FALSE]
    ELSE s

\* Mutant: the mode switch is timed against the navigation debounce.
LongPress_WrongDuration(s, cur, t) ==
    IF s.isLongPressing /\ cur = LOW /\ t - s.buttonPressStartTime >= TRACK_NAVIGATION_DEBOUNCE
    THEN LET switched == IF ~s.volumeAdjustedWhilePressed THEN switchMode(s) ELSE s
         IN  [switched EXCEPT !.isLongPressing = FALSE]
    ELSE s

\* Mutant: the mode switch ignores the volume-adjusted flag.
LongPress_IgnoresAdjust(s, cur, t) ==
    IF s.isLongPressing /\ cur = LOW /\ t - s.buttonPressStartTime >= MODE_SWITCH_PRESS_DURATION
    THEN [switchMode(s) EXCEPT !.isLongPressing = FALSE]
    ELSE s

LongPress(s, cur, t) ==
    IF s.isLongPressing /\ cur = LOW /\ t - s.buttonPressStartTime >= MODE_SWITCH_PRESS_DURATION
    THEN LET switched == IF ~s.volumeAdjustedWhilePressed THEN switchMode(s) ELSE s
         IN  [switched EXCEPT !.isLongPressing = FALSE]
    ELSE s

\* Mutant: the short press does not clear the collections in Collection mode.
ShortPress_NoGridReset(s, t, sd) ==
    IF t - s.buttonPressStartTime < MODE_SWITCH_PRESS_DURATION /\ ~s.volumeAdjustedWhilePressed
    THEN LET flipped == Emit([s EXCEPT !.isColorDetectionEnabled = ~@], "toggle", "")
         IN  IF ~flipped.isColorDetectionEnabled
             THEN IF flipped.currentMode = COLOR_RECOGNITION
                  THEN checkColorAndPlayAudio(flipped, sd)
                  ELSE flipped
             ELSE stopSong([flipped EXCEPT !.isLooping = FALSE])
    ELSE s

\* Mutant: the short press tests the volume-adjusted flag the wrong way round.
ShortPress_FlagInverted(s, t, sd) ==
    IF t - s.buttonPressStartTime < MODE_SWITCH_PRESS_DURATION /\ s.volumeAdjustedWhilePressed
    THEN LET flipped == Emit([s EXCEPT !.isColorDetectionEnabled = ~@], "toggle", "")
             cleared == IF flipped.currentMode = PAINTER_COLLECTION
                        THEN resetAllPainterCollections(flipped)
                        ELSE flipped
         IN  IF ~cleared.isColorDetectionEnabled
             THEN IF cleared.currentMode = COLOR_RECOGNITION
                  THEN checkColorAndPlayAudio(cleared, sd)
                  ELSE cleared
             ELSE stopSong([cleared EXCEPT !.isLooping = FALSE])
    ELSE s

\* Mutant: switching sensing on leaves the playback as it is.
ShortPress_KeepsPlaying(s, t, sd) ==
    IF t - s.buttonPressStartTime < MODE_SWITCH_PRESS_DURATION /\ ~s.volumeAdjustedWhilePressed
    THEN LET flipped == Emit([s EXCEPT !.isColorDetectionEnabled = ~@], "toggle", "")
             cleared == IF flipped.currentMode = PAINTER_COLLECTION
                        THEN resetAllPainterCollections(flipped)
                        ELSE flipped
         IN  IF ~cleared.isColorDetectionEnabled
             THEN IF cleared.currentMode = COLOR_RECOGNITION
                  THEN checkColorAndPlayAudio(cleared, sd)
                  ELSE cleared
             ELSE cleared
    ELSE s

\* Mutant: switching sensing off runs no final pass.
ShortPress_NoFinalPass(s, t, sd) ==
    IF t - s.buttonPressStartTime < MODE_SWITCH_PRESS_DURATION /\ ~s.volumeAdjustedWhilePressed
    THEN LET flipped == Emit([s EXCEPT !.isColorDetectionEnabled = ~@], "toggle", "")
             cleared == IF flipped.currentMode = PAINTER_COLLECTION
                        THEN resetAllPainterCollections(flipped)
                        ELSE flipped
         IN  IF ~cleared.isColorDetectionEnabled
             THEN cleared
             ELSE stopSong([cleared EXCEPT !.isLooping = FALSE])
    ELSE s

\* Mutant: the release toggles whatever the duration of the hold.
ShortPress_AnyDuration(s, t, sd) ==
    IF ~s.volumeAdjustedWhilePressed
    THEN LET flipped == Emit([s EXCEPT !.isColorDetectionEnabled = ~@], "toggle", "")
             cleared == IF flipped.currentMode = PAINTER_COLLECTION
                        THEN resetAllPainterCollections(flipped)
                        ELSE flipped
         IN  IF ~cleared.isColorDetectionEnabled
             THEN IF cleared.currentMode = COLOR_RECOGNITION
                  THEN checkColorAndPlayAudio(cleared, sd)
                  ELSE cleared
             ELSE stopSong([cleared EXCEPT !.isLooping = FALSE])
    ELSE s

ShortPress(s, t, sd) ==
    IF t - s.buttonPressStartTime < MODE_SWITCH_PRESS_DURATION /\ ~s.volumeAdjustedWhilePressed
    THEN LET flipped == Emit([s EXCEPT !.isColorDetectionEnabled = ~@], "toggle", "")
             cleared == IF flipped.currentMode = PAINTER_COLLECTION
                        THEN resetAllPainterCollections(flipped)
                        ELSE flipped
         IN  IF ~cleared.isColorDetectionEnabled
             THEN IF cleared.currentMode = COLOR_RECOGNITION
                  THEN checkColorAndPlayAudio(cleared, sd)
                  ELSE cleared
             ELSE stopSong([cleared EXCEPT !.isLooping = FALSE])
    ELSE s

Release(s, cur, t, sd) ==
    IF cur = HIGH /\ s.lastButtonState = LOW
    THEN LET up == Emit([s EXCEPT !.isEncoderPressed = FALSE], "release", "")
             pressed == ShortPress(up, t, sd)
         IN  [pressed EXCEPT !.volumeAdjustedWhilePressed = FALSE,
                             !.isLongPressing = FALSE,
                             !.isSleepPressing = FALSE]
    ELSE s

handleButton(s, cur, t, sd) ==
    LET slept == SleepTrigger(PressEdge(s, cur, t), cur, t)
    IN  IF slept.halted THEN slept
        ELSE [Release(LongPress(slept, cur, t), cur, t, sd) EXCEPT !.lastButtonState = cur]

-----------------------------------------------------------------------------
(* handleEncoder: MSB and LSB are the levels of the two phase lines.       *)

\* Mutant: one clockwise code of the table is mistyped (0b1100 for 0b1101).
Direction_MistypedCode(sum) ==
    IF sum \in {12, 4, 2, 11} THEN 1
    ELSE IF sum \in {14, 7, 1, 8} THEN -1
    ELSE 0

Direction(sum) ==
    IF sum \in {13, 4, 2, 11} THEN 1
    ELSE IF sum \in {14, 7, 1, 8} THEN -1
    ELSE 0

playNextTrack(s, track, sd) == playTrack(Emit(s, "next", ""), track, sd)
playPreviousTrack(s, track, sd) == playTrack(Emit(s, "previous", ""), track, sd)

\* Mutant: turning the volume up does not set the volume-adjusted flag.
VolumeControl_NoFlag(s, dir, t) ==
    IF t - s.lastRotationTime > ROTATION_DEBOUNCE
    THEN LET intent == Emit(s, "volume", IF dir > 0 THEN "cw" ELSE "ccw")
             turned ==
                 IF dir > 0
                 THEN IF intent.currentVolume > MIN_VOLUME
                      THEN [intent EXCEPT !.currentVolume = @ - VOLUME_STEP,
                                          !.audioVolume = intent.currentVolume - VOLUME_STEP,
                                          !.volumeAdjustedWhilePressed = TRUE]
                      ELSE intent
                 ELSE IF intent.currentVolume < MAX_VOLUME
                      THEN [intent EXCEPT !.currentVolume = @ + VOLUME_STEP,
                                          !.audioVolume = intent.currentVolume + VOLUME_STEP]
                      ELSE intent
         IN  [turned EXCEPT !.validRotations = 0, !.lastRotationTime = t]
    ELSE s

\* Mutant: turning the volume down does not test the lower bound.
VolumeControl_NoLowerBound(s, dir, t) ==
    IF t - s.lastRotationTime > ROTATION_DEBOUNCE
    THEN LET intent == Emit(s, "volume", IF dir > 0 THEN "cw" ELSE "ccw")
             turned ==
                 IF dir > 0
                 THEN [intent EXCEPT !.currentVolume = @ - VOLUME_STEP,
                                     !.audioVolume = intent.currentVolume - VOLUME_STEP,
                                     !.volumeAdjustedWhilePressed = TRUE]
                 ELSE IF intent.currentVolume < MAX_VOLUME
                      THEN [intent EXCEPT !.currentVolume = @ + VOLUME_STEP,
                                          !.audioVolume = intent.currentVolume + VOLUME_STEP,
                                          !.volumeAdjustedWhilePressed = TRUE]
                      ELSE Emit(intent, "bound", "max")
         IN  [turned EXCEPT !.validRotations = 0, !.lastRotationTime = t]
    ELSE s

\* The event "bound" records a rotation that found the volume at its bound.
\* Mutant: a rotation that finds the volume at its bound sets the flag all the same.
VolumeControl_FlagAtBound(s, dir, t) ==
    IF t - s.lastRotationTime > ROTATION_DEBOUNCE
    THEN LET intent == Emit(s, "volume", IF dir > 0 THEN "cw" ELSE "ccw")
             turned ==
                 IF dir > 0
                 THEN IF intent.currentVolume > MIN_VOLUME
                      THEN [intent EXCEPT !.currentVolume = @ - VOLUME_STEP,
                                          !.audioVolume = intent.currentVolume - VOLUME_STEP,
                                          !.volumeAdjustedWhilePressed = TRUE]
                      ELSE [Emit(intent, "bound", "min") EXCEPT !.volumeAdjustedWhilePressed = TRUE]
                 ELSE IF intent.currentVolume < MAX_VOLUME
                      THEN [intent EXCEPT !.currentVolume = @ + VOLUME_STEP,
                                          !.audioVolume = intent.currentVolume + VOLUME_STEP,
                                          !.volumeAdjustedWhilePressed = TRUE]
                      ELSE [Emit(intent, "bound", "max") EXCEPT !.volumeAdjustedWhilePressed = TRUE]
         IN  [turned EXCEPT !.validRotations = 0, !.lastRotationTime = t]
    ELSE s

VolumeControl(s, dir, t) ==
    IF t - s.lastRotationTime > ROTATION_DEBOUNCE
    THEN LET intent == Emit(s, "volume", IF dir > 0 THEN "cw" ELSE "ccw")
             turned ==
                 IF dir > 0
                 THEN IF intent.currentVolume > MIN_VOLUME
                      THEN [intent EXCEPT !.currentVolume = @ - VOLUME_STEP,
                                          !.audioVolume = intent.currentVolume - VOLUME_STEP,
                                          !.volumeAdjustedWhilePressed = TRUE]
                      ELSE Emit(intent, "bound", "min")
                 ELSE IF intent.currentVolume < MAX_VOLUME
                      THEN [intent EXCEPT !.currentVolume = @ + VOLUME_STEP,
                                          !.audioVolume = intent.currentVolume + VOLUME_STEP,
                                          !.volumeAdjustedWhilePressed = TRUE]
                      ELSE Emit(intent, "bound", "max")
         IN  [turned EXCEPT !.validRotations = 0, !.lastRotationTime = t]
    ELSE s

\* Mutant: track navigation does not look at the sensing flag.
TrackNavigation_WhileSensing(s, dir, t, track, sd) ==
    IF t - s.lastTrackNavigationTime > TRACK_NAVIGATION_DEBOUNCE
    THEN LET intent == Emit(s, "track", IF dir > 0 THEN "cw" ELSE "ccw")
             played == IF dir > 0 THEN playNextTrack(intent, track, sd)
                                  ELSE playPreviousTrack(intent, track, sd)
         IN  [played EXCEPT !.validRotations = 0, !.lastTrackNavigationTime = t]
    ELSE s

TrackNavigation(s, dir, t, track, sd) ==
    IF t - s.lastTrackNavigationTime > TRACK_NAVIGATION_DEBOUNCE /\ ~s.isColorDetectionEnabled
    THEN LET intent == Emit(s, "track", IF dir > 0 THEN "cw" ELSE "ccw")
             played == IF dir > 0 THEN playNextTrack(intent, track, sd)
                                  ELSE playPreviousTrack(intent, track, sd)
         IN  [played EXCEPT !.validRotations = 0, !.lastTrackNavigationTime = t]
    ELSE s

\* Mutant: a reading is accepted without comparing it with the last direction.
Confirm_NoDirectionCheck(s, dir, t, track, sd) ==
    IF dir = 0 THEN s
    ELSE LET counted == [s EXCEPT !.validRotations = 0, !.lastDir = dir]
         IN  IF counted.isEncoderPressed
             THEN VolumeControl(counted, dir, t)
             ELSE TrackNavigation(counted, dir, t, track, sd)

\* Mutant: a direction change leaves no credit, so the new direction needs two
\* more consistent readings.
Confirm_NoCredit(s, dir, t, track, sd) ==
    IF dir = 0 THEN s
    ELSE IF dir = s.lastDir
         THEN LET counted == [s EXCEPT !.validRotations = @ + 1]
              IN  IF counted.validRotations >= 1
                  THEN IF counted.isEncoderPressed
                       THEN VolumeControl(counted, dir, t)
                       ELSE TrackNavigation(counted, dir, t, track, sd)
                  ELSE counted
         ELSE [s EXCEPT !.lastDir = dir, !.validRotations = -1]

Confirm(s, dir, t, track, sd) ==
    IF dir = 0 THEN s
    ELSE IF dir = s.lastDir
         THEN LET counted == [s EXCEPT !.validRotations = @ + 1]
              IN  IF counted.validRotations >= 1
                  THEN IF counted.isEncoderPressed
                       THEN VolumeControl(counted, dir, t)
                       ELSE TrackNavigation(counted, dir, t, track, sd)
                  ELSE counted
         ELSE [s EXCEPT !.lastDir = dir, !.validRotations = 2]

handleEncoder(s, MSB, LSB, t, track, sd) ==
    LET encoded == (MSB * 2 + LSB) % 256
        sum == (s.lastEncoded * 4 + encoded) % 256
        dir == Direction(sum)
        read == Emit([s EXCEPT !.lastEncoded = encoded], "dir",
                     IF dir > 0 THEN "cw" ELSE IF dir < 0 THEN "ccw" ELSE "none")
    IN  Confirm(read, dir, t, track, sd)

-----------------------------------------------------------------------------
(* The body of loop() after the two handlers.                              *)

readColor(s, sample) == [s EXCEPT !.rgb = sample]

\* Mutant: the tables after the first one that matched are not probed.
Sense_FirstTableOnly(s, sample, sd) ==
    LET seen == readColor(s, sample)
        probe(d, table) == IF Count(d, "collected") > 0 THEN d
                           ELSE checkPainterColor(d, table, PALETTE_SIZE)
    IN  IF seen.currentMode = COLOR_RECOGNITION
        THEN checkColor(seen, colorThresholds, Len(colorThresholds), sd)
        ELSE LET dali == checkPainterColor(Emit(seen, "classify", ""), daliColors, PALETTE_SIZE)
                 gogh == probe(dali, goghColors)
                 munch == probe(gogh, munchColors)
                 picasso == probe(munch, picassoColors)
                 seurat == probe(picasso, seuratColors)
                 vinci == probe(seurat, vinciColors)
             IN  checkPainterCompletion(vinci, sd)

Sense(s, sample, sd) ==
    LET seen == readColor(s, sample)
    IN  IF seen.currentMode = COLOR_RECOGNITION
        THEN checkColor(seen, colorThresholds, Len(colorThresholds), sd)
        ELSE LET dali == checkPainterColor(Emit(seen, "classify", ""), daliColors, PALETTE_SIZE)
                 gogh == checkPainterColor(dali, goghColors, PALETTE_SIZE)
                 munch == checkPainterColor(gogh, munchColors, PALETTE_SIZE)
                 picasso == checkPainterColor(munch, picassoColors, PALETTE_SIZE)
                 seurat == checkPainterColor(picasso, seuratColors, PALETTE_SIZE)
                 vinci == checkPainterColor(seurat, vinciColors, PALETTE_SIZE)
             IN  checkPainterCompletion(vinci, sd)

Continuation(s, sd) ==
    IF s.isLooping /\ ~s.audioRunning /\ s.currentPlayingFile # ""
    THEN LET conn == connecttoFS(Emit(s, "restart", s.currentPlayingFile), s.currentPlayingFile, sd)
         IN  IF ~conn.audioRunning THEN [conn EXCEPT !.isLooping = FALSE] ELSE conn
    ELSE s

\* audio.loop(): the decoder advances; ended says the asset reaches its end now.
audioLoop(s, ended) ==
    IF s.audioRunning /\ ended
    THEN Emit([s EXCEPT !.audioRunning = FALSE], "ended", s.audioFile)
    ELSE s

\* Mutant: the continuation also runs after a sensing pass.
loopBody_ContinuesWhileSensing(s, sample, sd, ended) ==
    LET worked == IF s.isColorDetectionEnabled
                  THEN Continuation(Sense(s, sample, sd), sd)
                  ELSE Continuation(s, sd)
    IN  audioLoop(worked, ended)

loopBody(s, sample, sd, ended) ==
    LET worked == IF s.isColorDetectionEnabled THEN Sense(s, sample, sd) ELSE Continuation(s, sd)
    IN  audioLoop(worked, ended)


-----------------------------------------------------------------------------
(* The environment: what the SD card holds, and the history of a hold.     *)

AllFiles ==
    TrackFiles
    \cup {SpecialFile(<<BaseColors[i]>>) : i \in 1..Len(BaseColors)}
    \cup {PlainFile(painterNames[i]) : i \in 1..Len(painterNames)}

Healthy == [absent |-> {}, broken |-> {}]
NoCard == [absent |-> AllFiles, broken |-> {}]
Corrupt == [absent |-> {}, broken |-> AllFiles]
Cards == {Healthy, NoCard, Corrupt}

Levels == {LOW, HIGH}
Phases == {<<0, 0>>, <<0, 1>>, <<1, 0>>, <<1, 1>>}
Resting == {<<0, 0>>}
Ticks == {1000, 3000}
QuickTicks == {200}
BurstTick == 50
SlowTicks == {1000}

\* A hold runs from its press edge to its release edge (or to sleep entry).
\*   d         the time from the press edge to the release edge
\*   lowMax    the longest elapsed time at which a tick sampled the button low
\*   crossed   a tick sampled the button low with the elapsed time at or over the
\*             mode-switch threshold and under the sleep threshold
\*   adjusted  the volume was changed during the hold; adjustedEarly: before any
\*             tick sampled the button low at or over the mode-switch threshold
\*   flips     how often handleButton changed isColorDetectionEnabled
NoHold ==
    [ active |-> FALSE, released |-> FALSE, start |-> 0, d |-> 0, lowMax |-> 0,
      crossed |-> FALSE, toggles |-> 0, switches |-> 0, sleeps |-> 0, flips |-> 0,
      adjusted |-> FALSE, adjustedEarly |-> FALSE, rotated |-> FALSE ]

\* The hold after a handleButton step from d0 to d1 that sampled level cur at time t.
ButtonHold(h, d0, d1, cur, t) ==
    LET h0 == IF Count(d1, "press") > 0 THEN [NoHold EXCEPT !.active = TRUE, !.start = t] ELSE h
        el == t - h0.start
        h1 == IF h0.active
              THEN [h0 EXCEPT !.toggles = @ + Count(d1, "toggle"),
                              !.switches = @ + Count(d1, "switchMode"),
                              !.sleeps = @ + Count(d1, "sleep"),
                              !.flips = @ + IF d1.isColorDetectionEnabled # d0.isColorDetectionEnabled
                                            THEN 1 ELSE 0,
                              !.lowMax = IF cur = LOW /\ el > @ THEN el ELSE @,
                              !.crossed = @ \/ (cur = LOW /\ el >= MODE_SWITCH_PRESS_DURATION
                                                          /\ el < SLEEP_PRESS_DURATION)]
              ELSE h0
    IN  IF h1.active /\ Count(d1, "release") > 0
        THEN [h1 EXCEPT !.active = FALSE, !.released = TRUE, !.d = el]
        ELSE h1

\* The hold after a handleEncoder step that took the device from d0 to d1.
EncoderHold(h, d0, d1) ==
    IF h.active
    THEN [h EXCEPT !.rotated = @ \/ Count(d1, "volume") > 0,
                   !.adjusted = @ \/ d1.currentVolume # d0.currentVolume,
                   !.adjustedEarly = @ \/ (d1.currentVolume # d0.currentVolume
                                           /\ h.lowMax < MODE_SWITCH_PRESS_DURATION)]
    ELSE h

\* turns.prev and turns.cur are the readings of the previous and of the current
\* tick; turns.last is the latest reading other than "none" before the current
\* tick, and turns.older the latest reading other than "none" before that one.
NoTurns == [prev |-> "none", cur |-> "none", last |-> "none", older |-> "none"]

Reading(d) == d.ev[CHOOSE i \in Ops(d, "dir") : TRUE].arg

EncoderTurns(tn, d1) ==
    [prev |-> tn.cur, cur |-> Reading(d1),
     last |-> IF tn.cur # "none" THEN tn.cur ELSE tn.last,
     older |-> IF tn.cur # "none" THEN tn.last ELSE tn.older]

-----------------------------------------------------------------------------
(* The steps of the control loop.                                          *)

Fresh == [dev EXCEPT !.ev = <<>>]

HandleButton(levels, dts, cards, seconds) ==
    /\ pc = "handleButton"
    /\ \E cur \in levels, dt \in dts, sd \in cards :
          /\ wall + dt <= seconds * 1000
          /\ wall' = wall + dt
          /\ now' = now + dt
          /\ dev' = handleButton(Fresh, cur, now + dt, sd)
          /\ hold' = ButtonHold(hold, dev, dev', cur, now + dt)
          /\ pc' = IF dev'.halted THEN "asleep" ELSE "handleEncoder"
    /\ UNCHANGED turns

HandleEncoder(phases, tracks, cards) ==
    /\ pc = "handleEncoder"
    /\ \E ph \in phases, track \in tracks, sd \in cards :
          /\ dev' = handleEncoder(Fresh, ph[1], ph[2], now, track, sd)
          /\ dev'.validRotations <= MaxValidRotations
          /\ hold' = EncoderHold(hold, dev, dev')
          /\ turns' = EncoderTurns(turns, dev')
    /\ pc' = "loopBody"
    /\ UNCHANGED <<now, wall>>

LoopBody(samples, cards, endings) ==
    /\ pc = "loopBody"
    /\ \E sample \in samples, sd \in cards, ended \in endings :
          dev' = loopBody(Fresh, sample, sd, ended)
    /\ pc' = "handleButton"
    /\ UNCHANGED <<now, wall, hold, turns>>

\* The wake source fires (the button line is low) and the chip boots: setup().
\* Mutant: the mode survives the sleep.
Setup_KeepsMode ==
    /\ pc = "asleep"
    /\ dev.wakeArmed
    /\ dev.bootCount < MaxBoot
    /\ dev' = [BootState(dev.bootCount + 1) EXCEPT !.currentMode = dev.currentMode]
    /\ now' = SetupMillis
    /\ wall' = wall
    /\ hold' = NoHold
    /\ turns' = NoTurns
    /\ pc' = "handleButton"

Setup ==
    /\ pc = "asleep"
    /\ dev.wakeArmed
    /\ dev.bootCount < MaxBoot
    /\ dev' = BootState(dev.bootCount + 1)
    /\ now' = SetupMillis
    /\ wall' = wall
    /\ hold' = NoHold
    /\ turns' = NoTurns
    /\ pc' = "handleButton"

Init ==
    /\ dev = BootState(1)
    /\ now = SetupMillis
    /\ wall = SetupMillis
    /\ pc = "handleButton"
    /\ hold = NoHold
    /\ turns = NoTurns

\* The input arbiter and the decoder under every button and encoder input.
NextArbiter ==
    \/ HandleButton(Levels, Ticks, {Healthy}, MaxSeconds)
    \/ HandleEncoder(Phases, {PlainFile(<<"R","1">>)}, {Healthy})
    \/ LoopBody({NoColor, <<220, 20, 20>>}, {Healthy}, BOOLEAN)
    \/ Setup

SpecArbiter == Init /\ [][NextArbiter]_vars

\* Detection mode: the samples of the flat table, every card, a resting encoder.
NextDetection ==
    \/ HandleButton(Levels, Ticks, Cards, MaxSeconds)
    \/ HandleEncoder(Resting, {PlainFile(<<"R","1">>)}, {Healthy})
    \/ LoopBody({NoColor} \cup DetectionSamples, Cards, BOOLEAN)
    \/ Setup

SpecDetection == Init /\ [][NextDetection]_vars

\* Both modes over a longer run: the samples of one theme and of one family.
NextModes ==
    \/ HandleButton(Levels, Ticks, {Healthy}, MaxLongSeconds)
    \/ HandleEncoder(Resting, {PlainFile(<<"R","1">>)}, {Healthy})
    \/ LoopBody({DaliSample(i) : i \in 1..PALETTE_SIZE} \cup {<<220, 20, 20>>},
                {Healthy, Corrupt}, {FALSE})
    \/ Setup

SpecModes == Init /\ [][NextModes]_vars

\* Collection mode with two themes whose ranges overlap: a sample of the
\* overlap marks a sub-element of both, on a card that plays or does not.
NextCollection ==
    \/ HandleButton(Levels, Ticks, {Healthy}, MaxLongSeconds)
    \/ HandleEncoder(Resting, {PlainFile(<<"R","1">>)}, {Healthy})
    \/ LoopBody({DaliSample(i) : i \in 1..PALETTE_SIZE}
                   \cup {DaliGoghSample(i) : i \in 1..PALETTE_SIZE},
                {Healthy, Corrupt}, {FALSE})
    \/ Setup

SpecCollection == Init /\ [][NextCollection]_vars

\* The volume over its whole range: the button is held from the first tick on
\* (until the hold sleeps, and again after the wake-up) and the ticks are quick,
\* so that one hold has room for the rotations from the default volume down to
\* the lower bound.
NextVolume ==
    \/ HandleButton({LOW}, QuickTicks, {Healthy}, MaxVolumeSeconds)
    \/ HandleEncoder(Phases, {PlainFile(<<"R","1">>)}, {Healthy})
    \/ LoopBody({NoColor}, {Healthy}, {FALSE})
    \/ Setup

SpecVolume == Init /\ [][NextVolume]_vars

\* Samples that several tables hold, and samples that two rules of one table hold.
ProbingSamples ==
    {NoColor, DaliGoghSample(1), DaliGoghSample(2), VinciSample(1), VinciSample(2)}

NextProbing ==
    \/ HandleButton(Levels, Ticks, {Healthy}, MaxLongSeconds)
    \/ HandleEncoder(Resting, {PlainFile(<<"R","1">>)}, {Healthy})
    \/ LoopBody(ProbingSamples, {Healthy}, {FALSE})
    \/ Setup

SpecProbing == Init /\ [][NextProbing]_vars

\* Samples at the corners of a range, in two ranges, in the range of the
\* placeholder and in the range of the rule whose red band is 0..0.
ClassifierSamples ==
    {NoColor, <<200, 0, 0>>, <<255, 50, 50>>, <<199, 20, 20>>, <<220, 45, 20>>,
     <<0, 0, 0>>, <<0, 220, 20>>}

NextClassifier ==
    \/ HandleButton(Levels, Ticks, {Healthy}, MaxSeconds)
    \/ HandleEncoder(Resting, {PlainFile(<<"R","1">>)}, {Healthy})
    \/ LoopBody(ClassifierSamples, {Healthy}, {FALSE})
    \/ Setup

SpecClassifier == Init /\ [][NextClassifier]_vars

\* Samples that complete the theme Dali while the theme Gogh holds an entry.
RequestSamples == {DaliGoghSample(1)} \cup {DaliSample(i) : i \in 1..PALETTE_SIZE}

NextRequests ==
    \/ HandleButton(Levels, Ticks, {Healthy}, MaxLongSeconds)
    \/ HandleEncoder(Resting, {PlainFile(<<"R","1">>)}, {Healthy})
    \/ LoopBody(RequestSamples, Cards, {FALSE})
    \/ Setup

SpecRequests == Init /\ [][NextRequests]_vars

\* The phase that follows a phase in a clockwise turn: 00 -> 10 -> 11 -> 01 -> 00.
CwNext(p) == CASE p = 0 -> 2 [] p = 2 -> 3 [] p = 3 -> 1 [] p = 1 -> 0

PhaseOf(code) == <<code \div 2, code % 2>>

\* A knob that is turned one way only between two boots: it rests, or it goes
\* one step on in the direction of its latest step.
OneWay(d) ==
    {PhaseOf(d.lastEncoded)}
       \cup (IF d.lastDir >= 0 THEN {PhaseOf(CwNext(d.lastEncoded))} ELSE {})
       \cup (IF d.lastDir <= 0
             THEN {PhaseOf(q) : q \in {c \in 0..3 : CwNext(c) = d.lastEncoded}}
             ELSE {})

\* The same knob while it spins: it goes one step on in every tick.
Spinning(d) == OneWay(d) \ {PhaseOf(d.lastEncoded)}

InBurst == wall < SetupMillis + MaxBurstTicks * BurstTick

\* A burst of quick ticks with the button held right after the first power-on,
\* in which the spinning knob turns the volume to a bound within one hold, and
\* ordinary ticks for the holds after it.
NextBound ==
    \/ (InBurst /\ HandleButton({LOW}, {BurstTick}, {Healthy}, MaxBoundSeconds))
    \/ HandleButton(Levels, SlowTicks, {Healthy}, MaxBoundSeconds)
    \/ HandleEncoder(IF InBurst THEN Spinning(dev) ELSE OneWay(dev),
                     {PlainFile(<<"R","1">>)}, {Healthy})
    \/ LoopBody({NoColor}, {Healthy}, {FALSE})
    \/ Setup

SpecBound == Init /\ [][NextBound]_vars


-----------------------------------------------------------------------------
(* Properties of the input arbiter (SpecArbiter).                          *)

\* C1: a hold released after less than the mode-switch threshold (3000 ms), during
\* which the volume was not adjusted, fires RequestToggleDetection exactly once,
\* on its release edge (handleButton flips isColorDetectionEnabled once, and not
\* before the release), and fires neither a mode switch nor sleep.
C1_ShortHoldTogglesOnce ==
    /\ (hold.released /\ hold.d < MODE_SWITCH_PRESS_DURATION /\ ~hold.adjusted)
          => (hold.toggles = 1 /\ hold.flips = 1 /\ hold.switches = 0 /\ hold.sleeps = 0)
    /\ hold.active => (hold.toggles = 0 /\ hold.flips = 0)

C1_Witness ==
    /\ pc = "handleEncoder" /\ Count(dev, "release") = 1
    /\ hold.released /\ hold.d = 2000 /\ ~hold.adjusted /\ hold.toggles = 1

C4_Original == hold.lowMax >= SLEEP_PRESS_DURATION => (hold.switches = 0 /\ hold.toggles = 0)

\* C4 amended: a hold that reaches the sleep threshold fires no toggle, and fires
\* the mode switch exactly when a tick sampled it low between the two thresholds
\* with no volume adjustment before: then once, and otherwise never.
C4_SleepHoldIntents ==
    hold.lowMax >= SLEEP_PRESS_DURATION
       => /\ hold.toggles = 0 /\ hold.flips = 0
          /\ hold.switches = IF hold.crossed /\ ~hold.adjustedEarly THEN 1 ELSE 0

C4_Witness ==
    /\ pc = "asleep" /\ hold.lowMax >= SLEEP_PRESS_DURATION
    /\ hold.crossed /\ hold.switches = 1 /\ hold.toggles = 0

C4_WitnessDirect ==
    /\ pc = "asleep" /\ hold.lowMax >= SLEEP_PRESS_DURATION
    /\ ~hold.crossed /\ hold.switches = 0

\* C5 as stated: a hold with a volume adjustment at any point fires no mode switch.
C5_Original == hold.adjusted => hold.switches = 0

\* C5 amended: a volume adjustment made before the first tick that samples the
\* button low at or over the mode-switch threshold suppresses the mode switch of
\* that hold.
C5_EarlyAdjustSuppressesSwitch == hold.adjustedEarly => hold.switches = 0

C5_Witness ==
    /\ hold.active /\ hold.adjustedEarly /\ hold.crossed /\ hold.switches = 0
    /\ ~dev.isLongPressing

\* C6: a hold with a volume adjustment at any point fires no toggle (handleButton
\* does not flip isColorDetectionEnabled), whatever its duration.
C6_AdjustSuppressesToggle == hold.adjusted => (hold.toggles = 0 /\ hold.flips = 0)

C6_Witness ==
    /\ hold.released /\ hold.adjusted /\ hold.d < MODE_SWITCH_PRESS_DURATION
    /\ pc = "handleEncoder" /\ Count(dev, "release") = 1 /\ Count(dev, "toggle") = 0

-----------------------------------------------------------------------------
(* Properties of the quadrature decoder (SpecArbiter).                     *)

Emitted(d) ==
    IF Count(d, "volume") > 0 THEN d.ev[CHOOSE i \in Ops(d, "volume") : TRUE].arg
    ELSE IF Count(d, "track") > 0 THEN d.ev[CHOOSE i \in Ops(d, "track") : TRUE].arg
    ELSE "none"

AfterEncoder == pc = "loopBody"

\* C7 as stated: an emitted direction was read in this tick and in the tick before.
C7_Original ==
    (AfterEncoder /\ Emitted(dev) # "none")
       => (turns.cur = Emitted(dev) /\ turns.prev = Emitted(dev))

\* C7 amended: a rotation is emitted only in a tick that reads its direction, and
\* only when the latest earlier reading other than None was that same direction
\* (ticks that read None may lie in between): the first reading of a direction is
\* never emitted.
C7_EmittedAfterSameDirection ==
    (AfterEncoder /\ Emitted(dev) # "none")
       => (turns.cur = Emitted(dev) /\ turns.last = Emitted(dev))

C7_Witness ==
    /\ AfterEncoder /\ Emitted(dev) = "cw" /\ turns.prev = "none" /\ turns.last = "cw"


-----------------------------------------------------------------------------
(* Properties of the Detection mode (SpecDetection).                       *)

Matched(d) == d.ev[CHOOSE i \in Ops(d, "match") : TRUE].arg

FamilyOf(id) == IF id = "B1" THEN 4 ELSE 0
PlainOf(id) == IF id = "R1" THEN "/R1.mp3" ELSE IF id = "RO1" THEN "/RO1.mp3" ELSE "/B1.mp3"
SpecialOf(id) == IF id = "B1" THEN "/BX.mp3" ELSE "/RX.mp3"

\* C8: in Detection mode a match of family F that finds F's counter at 0..3 (the
\* matches 1 to 4 after a zero counter) requests the plain asset of the matched
\* identity and counts one up; a match that finds it at 4 (the 5th) requests the
\* special asset of the family (base name and "X") and leaves the counter at 0.
\* A step without a match and without a mode switch leaves every counter as it is.
C8_FifthMatchSpecial ==
    [][/\ (Count(dev', "match") > 0 /\ dev'.currentMode = COLOR_RECOGNITION)
             => LET id == Matched(dev')
                    F == FamilyOf(id)
                IN  /\ Count(dev', "match") = 1
                    /\ dev.colorCounters[F] \in 0..3
                          => /\ Requests(dev') = <<PlainOf(id)>>
                             /\ dev'.colorCounters[F] = dev.colorCounters[F] + 1
                    /\ dev.colorCounters[F] = 4
                          => /\ Requests(dev') = <<SpecialOf(id)>>
                             /\ dev'.colorCounters[F] = 0
                    /\ \A G \in DOMAIN dev.colorCounters \ {F} :
                          dev'.colorCounters[G] = dev.colorCounters[G]
       /\ (Count(dev', "match") = 0 /\ Count(dev', "switchMode") = 0 /\ pc # "asleep")
             => dev'.colorCounters = dev.colorCounters]_vars

C8_Witness ==
    /\ pc = "handleButton" /\ Count(dev, "match") = 1 /\ Matched(dev) = "RO1"
    /\ Requests(dev) = <<"/RX.mp3">> /\ dev.colorCounters[0] = 0

-----------------------------------------------------------------------------
(* Properties of the Collection mode and of the mode switch (SpecModes).   *)

Row(d, T) == d.painterCollectionStatus[T]
AllFalse(row) == \A c \in DOMAIN row : ~row[c]
Completed(d, name) == \E i \in Ops(d, "complete") : d.ev[i].arg = name

\* C9: in Collection mode a sensing tick that does not complete a theme keeps
\* every entry collected so far (after the sub-elements 0,1,2,3 the row is
\* [t,t,t,t,f]) and adds the sample's entry; the tick whose sample marks the last
\* missing sub-element of a theme requests the completion asset of the theme,
\* switches sensing off and leaves the theme's row all false.  Between sensing
\* ticks a step that neither toggles, switches mode nor starts playback keeps the
\* grid.
C9_CollectionProgressAndCompletion ==
    [][/\ (Count(dev', "classify") > 0 /\ dev'.currentMode = PAINTER_COLLECTION)
             => \A i \in 1..PALETTE_SIZE :
                   dev'.rgb = DaliSample(i)
                      => IF \A c \in 0..(PALETTE_SIZE - 1) : c # i - 1 => Row(dev, 0)[c]
                         THEN /\ Completed(dev', "P_Dali")
                              /\ Requests(dev') = <<"/P_Dali.mp3">>
                              /\ ~dev'.isColorDetectionEnabled
                              /\ AllFalse(Row(dev', 0))
                         ELSE /\ Count(dev', "complete") = 0
                              /\ Requests(dev') = <<>>
                              /\ dev'.isColorDetectionEnabled
                              /\ Row(dev', 0) = [Row(dev, 0) EXCEPT ![i - 1] = TRUE]
       /\ (/\ Count(dev', "classify") = 0 /\ Count(dev', "toggle") = 0
           /\ Count(dev', "switchMode") = 0 /\ Count(dev', "play") = 0 /\ pc # "asleep")
             => dev'.painterCollectionStatus = dev.painterCollectionStatus]_vars

C9_Witness ==
    /\ pc = "handleButton" /\ Completed(dev, "P_Dali") /\ dev.rgb = DaliSample(5)
    /\ Requests(dev) = <<"/P_Dali.mp3">> /\ Count(dev, "playFailed") = 1
    /\ ~dev.isColorDetectionEnabled /\ AllFalse(Row(dev, 0))

C9_WitnessPartial ==
    /\ pc = "handleButton" /\ dev.currentMode = PAINTER_COLLECTION /\ dev.isColorDetectionEnabled
    /\ Row(dev, 0) = [c \in 0..4 |-> c < 4]

C10_WitnessInto ==
    /\ pc = "handleEncoder" /\ Count(dev, "switchMode") = 1
    /\ dev.currentMode = PAINTER_COLLECTION /\ dev.rgb = <<220, 20, 20>>
    /\ dev.colorCounters = NoCounters /\ dev.painterCollectionStatus = NoCollection

-----------------------------------------------------------------------------
(* Properties of playback around a mode switch (SpecArbiter).              *)

Starts(d) == Ops(d, "request") \cup Ops(d, "play") \cup Ops(d, "playFailed") \cup Ops(d, "restart")

\* C11: the step in which switchMode fires stops the playback before anything
\* else of that step: a stop precedes the switch and every playback request or
\* start of the step, and the step leaves the player stopped, the looping flag
\* clear and the playback-target name empty.
C11_SwitchStopsBeforeRequests ==
    [][Count(dev', "switchMode") > 0
          => /\ \E i \in Ops(dev', "stop") :
                   /\ \A j \in Ops(dev', "switchMode") : i < j
                   /\ \A j \in Starts(dev') : i < j
             /\ ~dev'.audioRunning
             /\ ~dev'.isLooping
             /\ dev'.currentPlayingFile = ""]_vars

C11_Witness ==
    /\ pc = "handleEncoder" /\ Count(dev, "switchMode") = 1
    /\ \E i \in Ops(dev, "stop") : dev.ev[i].arg = "/R1.mp3"
    /\ ~dev.audioRunning /\ ~dev.isLooping /\ dev.currentPlayingFile = ""

-----------------------------------------------------------------------------
(* Properties of the grid at rest (SpecCollection).                        *)

Painters == 0..(PAINTER_COUNT - 1)
CompletedRow(d, p) == Completed(d, Join(painterNames[p + 1]))

\* C12: no state between two steps of the loop has a row of the grid all true;
\* a row that a step found complete is all false when the step returns, whether
\* its completion asset played or not.
C12_NoRowStuckComplete ==
    \A p \in Painters :
       /\ ~RowComplete(dev, p)
       /\ CompletedRow(dev, p) => AllFalse(Row(dev, p))

C12_Witness ==
    /\ pc = "handleButton" /\ Count(dev, "complete") = 2 /\ Count(dev, "playFailed") = 2
    /\ CompletedRow(dev, 0) /\ CompletedRow(dev, 1)
    /\ AllFalse(Row(dev, 0)) /\ AllFalse(Row(dev, 1))

-----------------------------------------------------------------------------
(* Properties of the repeat counters (SpecDetection).                      *)

Families == 0..(COLOR_FAMILY_COUNT - 1)
SpecialFiles == {SpecialFile(<<BaseColors[i]>>) : i \in 1..Len(BaseColors)}

\* C13: in every state every repeat counter is in 0..4, below the trip
\* threshold; the counter of a family is 0 in the state after the step that
\* requested the family's special asset.
C13_CountersBelowThreshold ==
    /\ \A F \in Families : dev.colorCounters[F] \in 0..(COLOR_COUNT_THRESHOLD - 1)
    /\ \A i \in Ops(dev, "request") :
          dev.ev[i].arg \in SpecialFiles
             => dev.colorCounters[FamilyOf(Matched(dev))] = 0

C13_Witness ==
    /\ pc = "handleButton" /\ Count(dev, "match") = 1 /\ Matched(dev) = "R1"
    /\ dev.colorCounters[0] = COLOR_COUNT_THRESHOLD - 1 /\ dev.colorCounters[4] = 1

C13_WitnessTrip ==
    /\ Count(dev, "match") = 1 /\ Matched(dev) = "R1" /\ Requests(dev) = <<"/RX.mp3">>
    /\ Count(dev, "missing") = 1 /\ dev.colorCounters[0] = 0

-----------------------------------------------------------------------------
(* Properties of the volume (SpecVolume).                                  *)

AtBound(d, which) == \E i \in Ops(d, "bound") : d.ev[i].arg = which

\* C14: the volume is always in MIN_VOLUME..MAX_VOLUME and the player's volume
\* follows it.  While the device runs, the volume changes only in a handleEncoder
\* step that reads a direction confirmed by the reading before it while the
\* button is held, and then by exactly one step up or down.  (A boot starts again
\* from the default volume.)
C14_VolumeInRangeOneStep ==
    /\ [](/\ dev.currentVolume \in MIN_VOLUME..MAX_VOLUME
          /\ dev.audioVolume = dev.currentVolume)
    /\ [][(dev'.currentVolume # dev.currentVolume /\ pc # "asleep")
             => /\ pc = "handleEncoder"
                /\ Count(dev', "volume") = 1
                /\ dev.isEncoderPressed /\ dev.lastButtonState = LOW
                /\ turns'.cur # "none" /\ turns'.cur = turns'.last
                /\ dev'.currentVolume - dev.currentVolume \in {VOLUME_STEP, -VOLUME_STEP}]_vars

C14_Witness ==
    /\ pc = "loopBody" /\ Emitted(dev) = "cw" /\ AtBound(dev, "min")
    /\ dev.currentVolume = MIN_VOLUME

C14_WitnessMax ==
    /\ pc = "loopBody" /\ Emitted(dev) = "ccw" /\ AtBound(dev, "max")
    /\ dev.currentVolume = MAX_VOLUME

-----------------------------------------------------------------------------
(* Frame of the mode (SpecModes).                                          *)

\* C15: while the device runs, currentMode changes only in a handleButton step
\* that fires switchMode once, in a hold sampled low at or over the mode-switch
\* threshold; every other step (a toggle, a match, a theme completion, a
\* playback request, success or failure) leaves it as it is.  (A boot starts
\* again in Detection mode.)
C15_ModeChangedOnlyBySwitch ==
    [][(dev'.currentMode # dev.currentMode /\ pc # "asleep")
          => /\ pc = "handleButton"
             /\ Count(dev', "switchMode") = 1
             /\ Count(dev', "toggle") = 0
             /\ hold'.active /\ hold'.switches = 1
             /\ hold'.lowMax >= MODE_SWITCH_PRESS_DURATION]_vars

C15_Witness ==
    /\ pc = "handleEncoder" /\ Count(dev, "switchMode") = 1
    /\ dev.currentMode = COLOR_RECOGNITION /\ dev.bootCount = 1
    /\ hold.active /\ hold.lowMax = MODE_SWITCH_PRESS_DURATION /\ hold.switches = 1

C15_WitnessKept ==
    /\ pc = "handleButton" /\ Count(dev, "complete") = 1 /\ Count(dev, "play") = 1
    /\ dev.currentMode = PAINTER_COLLECTION

-----------------------------------------------------------------------------
(* The documented trigger of the special effect (SpecDetection).           *)

\* The plain assets of the identities of family F.
PlainFilesOf(F) ==
    {PlainFile(colorThresholds[i].audioFile) :
        i \in {k \in 1..Len(colorThresholds) :
                  getColorFamilyIndex(colorThresholds[k].audioFile) = F}}

Trips(d) == \E i \in Ops(d, "request") : d.ev[i].arg \in SpecialFiles

\* C16 as stated: the special asset of a family is requested only when the
\* counted detections are of different identities of that family with no other
\* detection in between; in particular the detection before the one that trips
\* (its plain asset is the playback target the tripping step finds) is of the
\* same family and of another identity than the tripping match.
C16_Original ==
    [][(Count(dev', "match") = 1 /\ Trips(dev'))
          => LET id == Matched(dev')
             IN  /\ dev.currentPlayingFile \in PlainFilesOf(FamilyOf(id))
                 /\ dev.currentPlayingFile # PlainOf(id)]_vars

-----------------------------------------------------------------------------
(* Routing of rotations (SpecArbiter).                                     *)

Navigates(d) == Count(d, "track") > 0 \/ Count(d, "next") > 0 \/ Count(d, "previous") > 0
Confirmed(tn) == tn.cur # "none" /\ tn.cur = tn.last

\* C17: in a tick that sampled the button low, handleEncoder emits no track
\* navigation and requests no playback, and a rotation it emits is a volume
\* intent; in a tick that sampled the button high it emits no volume intent and
\* leaves the volume as it is, and it navigates (one request) only with sensing
\* disabled.  Nothing is emitted without a confirmed reading.
C17_RotationRouting ==
    [][pc = "handleEncoder"
          => /\ dev.lastButtonState = LOW
                   => /\ ~Navigates(dev') /\ Count(dev', "request") = 0
                      /\ Emitted(dev') # "none" => Count(dev', "volume") = 1
             /\ dev.lastButtonState = HIGH
                   => /\ Count(dev', "volume") = 0
                      /\ dev'.currentVolume = dev.currentVolume
                      /\ Navigates(dev')
                            => (~dev.isColorDetectionEnabled /\ Count(dev', "request") = 1)
             /\ Emitted(dev') # "none" => Confirmed(turns')
             /\ dev.isEncoderPressed = (dev.lastButtonState = LOW)]_vars

C17_Witness ==
    /\ pc = "loopBody" /\ Confirmed(turns) /\ dev.lastButtonState = HIGH
    /\ Count(dev, "track") = 1 /\ Count(dev, "next") = 1 /\ Count(dev, "request") = 1
    /\ ~dev.isColorDetectionEnabled /\ dev.currentVolume = DEFAULT_VOLUME

C17_WitnessHeld ==
    /\ pc = "loopBody" /\ Confirmed(turns) /\ dev.lastButtonState = LOW
    /\ Count(dev, "volume") = 1 /\ ~Navigates(dev) /\ ~dev.isColorDetectionEnabled
    /\ dev.currentVolume # DEFAULT_VOLUME

C17_WitnessSensing ==
    /\ pc = "loopBody" /\ Confirmed(turns) /\ dev.lastButtonState = HIGH
    /\ dev.isColorDetectionEnabled /\ Emitted(dev) = "none"

-----------------------------------------------------------------------------
(* Properties of playback requests (SpecDetection).                        *)

LastRequest(d) == Requests(d)[Count(d, "request")]

\* C18 as stated: a step that requests playback while an asset is playing stops
\* that asset before it starts anything, and after the step the player plays the
\* newest requested asset or nothing: the previous asset is never still playing.
C18_Original ==
    [][Count(dev', "request") > 0
          => /\ dev.audioRunning
                   => \E j \in Ops(dev', "stop") :
                         /\ dev'.ev[j].arg = dev.audioFile
                         /\ \A k \in Ops(dev', "play") : j < k
             /\ dev'.audioRunning => dev'.audioFile = LastRequest(dev')]_vars

\* C19 as stated: after a step in which the existence check or the play of a
\* requested asset failed, that asset is not playing and the looping flag is
\* clear, in both cases.
C19_Original ==
    \A i \in Ops(dev, "missing") \cup Ops(dev, "playFailed") :
       /\ \A k \in Ops(dev, "play") : k > i => dev.ev[k].arg # dev.ev[i].arg
       /\ (\A k \in Ops(dev, "request") : k <= i) => ~dev.isLooping

Opens(d) == Ops(d, "play") \cup Ops(d, "playFailed")

\* C20 as stated: every invocation of play is preceded, in its step, by an
\* existence check of the same name that succeeded.
C20_Original ==
    \A k \in Opens(dev) :
       \E i \in Ops(dev, "exists") : i < k /\ dev.ev[i].arg = dev.ev[k].arg

\* C20 amended: play is invoked by playTrack only after an existence check of
\* the same name that succeeded in the same call; the only other invocation is
\* the continuation of the loop body, which opens the playback-target name
\* without an existence check.
C20_ExistsBeforePlayExceptContinuation ==
    \A k \in Opens(dev) :
       \/ \E i \in Ops(dev, "exists") :
             /\ i < k /\ dev.ev[i].arg = dev.ev[k].arg
             /\ \A j \in Ops(dev, "request") \cup Ops(dev, "missing") : ~(i < j /\ j < k)
       \/ /\ pc = "handleButton" /\ k > 1
          /\ dev.ev[k - 1] = [op |-> "restart", arg |-> dev.ev[k].arg]
          /\ Count(dev, "exists") = 0 /\ Count(dev, "request") = 0

C20_Witness ==
    /\ pc = "handleButton" /\ Count(dev, "restart") = 1 /\ Count(dev, "exists") = 0
    /\ \E k \in Opens(dev) : dev.ev[k].arg = "/B1.mp3"
    /\ dev.audioFile = "/R1.mp3"

C20_WitnessPlayTrack ==
    /\ Count(dev, "exists") = 1 /\ Count(dev, "play") = 1 /\ Count(dev, "restart") = 0
    /\ dev.audioRunning /\ dev.audioFile = "/RO1.mp3"

-----------------------------------------------------------------------------
(* Playback continuation (SpecDetection).                                  *)

\* The loop body finds an ended asset to continue: looping set, the player
\* idle, a playback target named.
Ended(d) == d.isLooping /\ ~d.audioRunning /\ d.currentPlayingFile # ""

\* C21 as stated: a loop body that finds an ended asset with the looping flag set
\* issues a play in that tick, whether or not sensing is enabled.
C21_Original ==
    [][(pc = "loopBody" /\ Ended(dev)) => Count(dev', "restart") + Count(dev', "request") > 0]_vars

\* C21 amended: the continuation runs exactly in the loop bodies that find an
\* ended asset with sensing disabled, and re-issues the playback target; a loop
\* body with sensing enabled never re-issues it (only a match requests
\* playback there).  The audio service itself runs in both.
C21_ContinuationOnlyWhenNotSensing ==
    [][pc = "loopBody"
          => /\ (Count(dev', "restart") > 0) = (~dev.isColorDetectionEnabled /\ Ended(dev))
             /\ Count(dev', "restart") <= 1
             /\ \A i \in Ops(dev', "restart") : dev'.ev[i].arg = dev.currentPlayingFile
             /\ dev.isColorDetectionEnabled => Count(dev', "request") = Count(dev', "match")]_vars

C21_Witness ==
    /\ pc = "handleButton" /\ dev.isColorDetectionEnabled /\ Ended(dev)
    /\ Count(dev, "classify") = 1 /\ Count(dev, "match") = 0
    /\ Count(dev, "ended") = 0 /\ Count(dev, "restart") = 0

C21_WitnessRestart ==
    /\ pc = "handleButton" /\ ~dev.isColorDetectionEnabled
    /\ Count(dev, "restart") = 1 /\ Count(dev, "play") = 1 /\ dev.audioRunning

-----------------------------------------------------------------------------
(* Themes completing together (SpecCollection).                            *)

Palettes == <<daliColors, goghColors, munchColors, picassoColors, seuratColors, vinciColors>>

\* The sub-elements (0-based) of theme p that a sample marks: that of the first
\* rule of p's table that contains it, if any.
Marked(rgb, p) ==
    LET table == Palettes[p + 1]
        hits == {i \in 1..PALETTE_SIZE : InRange(rgb, table[i])}
    IN  IF hits = {} THEN {}
        ELSE {table[CHOOSE i \in hits : \A j \in hits : i <= j].colorIndex - 1}

\* Theme p becomes complete by the sample: the sample marks the only entries
\* that the row lacks.
BecomesComplete(d, rgb, p) ==
    \A c \in 0..(PALETTE_SIZE - 1) : Row(d, p)[c] \/ c \in Marked(rgb, p)

SensingPass(d) == pc = "loopBody" /\ d.isColorDetectionEnabled

\* C22 as stated: every theme that becomes complete in a sensing tick of
\* Collection mode has its completion asset requested, its complete signal
\* emitted and its row cleared, whatever happens to the other themes that
\* complete in that tick.
C22_Original ==
    [][(SensingPass(dev) /\ dev.currentMode = PAINTER_COLLECTION)
          => \A p \in Painters :
                BecomesComplete(dev, dev'.rgb, p)
                   => /\ CompletedRow(dev', p)
                      /\ \E i \in Ops(dev', "request") :
                            dev'.ev[i].arg = PlainFile(painterNames[p + 1])
                      /\ AllFalse(Row(dev', p))]_vars

-----------------------------------------------------------------------------
(* Wholesale resets of the grid (SpecCollection).                          *)

ClearedEntries(d) == \E i \in Ops(d, "gridReset") : d.ev[i].arg = "entries"

\* C23: a short-press toggle in Collection mode (sensing switched on, and equally
\* off) leaves every entry of the grid false, and runs no classification of its
\* own, so the reset precedes the first classification after the toggle; a mode
\* switch into Collection mode leaves every entry false as well.
C23_ToggleAndSwitchResetGrid ==
    /\ (Count(dev, "toggle") > 0 /\ dev.currentMode = PAINTER_COLLECTION)
          => /\ dev.painterCollectionStatus = NoCollection
             /\ Count(dev, "gridReset") = 1
             /\ Count(dev, "classify") = 0
    /\ (Count(dev, "switchMode") > 0 /\ dev.currentMode = PAINTER_COLLECTION)
          => /\ dev.painterCollectionStatus = NoCollection
             /\ Count(dev, "gridReset") = 1

C23_Witness ==
    /\ pc = "handleEncoder" /\ Count(dev, "toggle") = 1 /\ dev.isColorDetectionEnabled
    /\ dev.currentMode = PAINTER_COLLECTION
    /\ ClearedEntries(dev) /\ dev.painterCollectionStatus = NoCollection

C23_WitnessSwitch ==
    /\ pc = "handleEncoder" /\ Count(dev, "switchMode") = 1
    /\ dev.currentMode = PAINTER_COLLECTION /\ dev.isColorDetectionEnabled
    /\ dev.painterCollectionStatus = NoCollection

-----------------------------------------------------------------------------
(* The transition table of the decoder (SpecArbiter).                      *)

PhaseCodes == 0..3
Codes == 0..15

\* The number of phase lines on which two phases differ.
Differ(p, q) == (IF p \div 2 # q \div 2 THEN 1 ELSE 0) + (IF p % 2 # q % 2 THEN 1 ELSE 0)

CwCodes == {c \in Codes : Direction(c) = 1}
CcwCodes == {c \in Codes : Direction(c) = -1}
NoneCodes == {c \in Codes : Direction(c) = 0}

DirName(dir) == IF dir > 0 THEN "cw" ELSE IF dir < 0 THEN "ccw" ELSE "none"

\* C24: of the 16 transition codes (previous phase, current phase) the table
\* reads exactly 4 as clockwise, 4 others as counter-clockwise and the other 8
\* as none; the clockwise codes are the four single steps of the cycle
\* 00 -> 10 -> 11 -> 01 -> 00, the counter-clockwise codes the four steps of the
\* reverse cycle, and the codes read as none are the no-change and the
\* two-line-jump codes.  Every handleEncoder step reads its transition so.
C24_TransitionTable ==
    /\ [](/\ Cardinality(CwCodes) = 4 /\ Cardinality(CcwCodes) = 4
          /\ Cardinality(NoneCodes) = 8 /\ CwCodes \cap CcwCodes = {}
          /\ \A p \in PhaseCodes, q \in PhaseCodes :
                /\ (4 * p + q \in CwCodes) = (q = CwNext(p))
                /\ (4 * p + q \in CcwCodes) = (p = CwNext(q))
                /\ (4 * p + q \in NoneCodes) = (Differ(p, q) # 1))
    /\ [][pc = "handleEncoder"
             => /\ dev.lastEncoded \in PhaseCodes /\ dev'.lastEncoded \in PhaseCodes
                /\ Reading(dev') = DirName(Direction(4 * dev.lastEncoded + dev'.lastEncoded))
                /\ Reading(dev') = IF dev'.lastEncoded = CwNext(dev.lastEncoded) THEN "cw"
                                   ELSE IF dev.lastEncoded = CwNext(dev'.lastEncoded) THEN "ccw"
                                   ELSE "none"]_vars

C24_Witness ==
    /\ pc = "loopBody" /\ Reading(dev) = "cw" /\ turns.prev = "cw" /\ dev.lastEncoded = 3

C24_WitnessCcw ==
    /\ pc = "loopBody" /\ Reading(dev) = "ccw" /\ turns.prev = "ccw" /\ dev.lastEncoded = 3

C24_WitnessJump ==
    /\ pc = "loopBody" /\ Reading(dev) = "none" /\ turns.prev = "none" /\ turns.last = "none"
    /\ dev.lastEncoded = 3 /\ dev.bootCount = 1 /\ now = SetupMillis + 1000

-----------------------------------------------------------------------------
(* Direction changes of the decoder (SpecArbiter).                         *)

Changed(tn) == tn.cur # "none" /\ tn.cur # tn.last

\* The debounce window and the gate of the route an accepted reading takes.
RouteOpen(d, t) ==
    IF d.isEncoderPressed
    THEN t - d.lastRotationTime > ROTATION_DEBOUNCE
    ELSE t - d.lastTrackNavigationTime > TRACK_NAVIGATION_DEBOUNCE /\ ~d.isColorDetectionEnabled

\* C25: the first reading of a new direction emits nothing, changes neither the
\* volume nor the playback and only records the direction; the next reading of
\* that direction (ticks that read None may lie in between) is accepted: it is
\* emitted as soon as the debounce window and the gate of its route are open.
\* A reading that reverses the latest reading other than None never emits.
C25_AcceptedOnSecondReading ==
    [][pc = "handleEncoder"
          => /\ Changed(turns')
                   => /\ Emitted(dev') = "none" /\ Len(dev'.ev) = 1
                      /\ dev'.validRotations = 2
                      /\ dev'.lastDir = (IF turns'.cur = "cw" THEN 1 ELSE -1)
                      /\ dev'.currentVolume = dev.currentVolume
                      /\ dev'.audioFile = dev.audioFile
             /\ Confirmed(turns')
                   => /\ dev.lastDir = (IF turns'.cur = "cw" THEN 1 ELSE -1)
                      /\ RouteOpen(dev, now) = (Emitted(dev') = turns'.cur)
                      /\ ~RouteOpen(dev, now) => Emitted(dev') = "none"]_vars

\* A reversal (ccw, then cw) followed by one more cw reading, which is emitted.
C25_Witness ==
    /\ pc = "loopBody" /\ turns.older = "ccw" /\ turns.last = "cw" /\ turns.cur = "cw"
    /\ Emitted(dev) = "cw"

\* Readings that alternate: cw, ccw, cw, none of them emitted.
C25_WitnessAlternating ==
    /\ pc = "loopBody" /\ turns.older = "cw" /\ turns.last = "ccw" /\ turns.cur = "cw"
    /\ turns.prev = "ccw" /\ Emitted(dev) = "none" /\ dev.validRotations = 2

-----------------------------------------------------------------------------
(* What a toggle leaves alone (SpecModes).                                 *)

Toggled(d) == Count(d, "toggle") = 1

SamePlayback(d0, d1) ==
    /\ d1.audioRunning = d0.audioRunning /\ d1.audioFile = d0.audioFile
    /\ d1.currentPlayingFile = d0.currentPlayingFile /\ d1.isLooping = d0.isLooping

\* C26 as stated: a toggle that runs no classification pass leaves the mode, the
\* volume, the counters and the playback state as they were.
C26_Original ==
    [][(pc = "handleButton" /\ Toggled(dev') /\ Count(dev', "classify") = 0)
          => /\ dev'.currentMode = dev.currentMode
             /\ dev'.currentVolume = dev.currentVolume
             /\ dev'.colorCounters = dev.colorCounters
             /\ SamePlayback(dev, dev')]_vars

\* C26 amended: a toggle leaves the mode and the volume as they were, and the
\* counters too unless it runs the final pass of the Detection mode.  Switching
\* sensing off in Collection mode leaves the playback state as it was; switching
\* sensing on, in either mode, stops the playback and clears the looping flag
\* (the asset name it keeps), and requests nothing.
C26_ToggleOnStopsPlayback ==
    [][(pc = "handleButton" /\ Toggled(dev'))
          => /\ dev'.isColorDetectionEnabled = ~dev.isColorDetectionEnabled
             /\ dev'.currentMode = dev.currentMode
             /\ dev'.currentVolume = dev.currentVolume
             /\ Count(dev', "classify") = 0
                   => dev'.colorCounters = dev.colorCounters
             /\ (~dev'.isColorDetectionEnabled /\ dev.currentMode = PAINTER_COLLECTION)
                   => (SamePlayback(dev, dev') /\ Count(dev', "classify") = 0)
             /\ dev'.isColorDetectionEnabled
                   => /\ ~dev'.audioRunning /\ ~dev'.isLooping
                      /\ dev'.currentPlayingFile = dev.currentPlayingFile
                      /\ Count(dev', "stop") = 1
                      /\ Count(dev', "request") = 0 /\ Count(dev', "classify") = 0]_vars

\* Sensing switched on while an asset was playing: the asset is stopped.
C26_Witness ==
    /\ pc = "handleEncoder" /\ Toggled(dev) /\ dev.isColorDetectionEnabled
    /\ \E i \in Ops(dev, "stop") : dev.ev[i].arg # ""
    /\ dev.currentPlayingFile # ""

\* Sensing switched off in Collection mode with entries collected: no pass.
C26_WitnessOff ==
    /\ pc = "handleEncoder" /\ Toggled(dev) /\ ~dev.isColorDetectionEnabled
    /\ dev.currentMode = PAINTER_COLLECTION /\ Count(dev, "classify") = 0
    /\ \E i \in Ops(dev, "gridReset") : dev.ev[i].arg = "entries"

-----------------------------------------------------------------------------
(* The final pass of a toggle (SpecModes).                                 *)

\* The rules of the flat table that hold a sample, placeholders set aside.
RulesHolding(rgb) ==
    {i \in 1..Len(colorThresholds) :
        /\ ~(colorThresholds[i].rMin = 0 /\ colorThresholds[i].rMax = 0)
        /\ InRange(rgb, colorThresholds[i])}

\* C27: the release that switches sensing off in Detection mode runs exactly one
\* classification pass, on the sample last read (the step reads no new one);
\* a release that switches sensing off in Collection mode, or sensing on in
\* either mode, runs no pass.  With sensing off, the rest of the tick (the
\* decoder and the loop body) runs no pass either.
C27_OneFinalPass ==
    [][/\ (pc = "handleButton" /\ Toggled(dev'))
             => /\ dev'.rgb = dev.rgb
                /\ Count(dev', "classify") =
                      (IF ~dev'.isColorDetectionEnabled /\ dev.currentMode = COLOR_RECOGNITION
                       THEN 1 ELSE 0)
                /\ Count(dev', "classify") = 1
                      => /\ Count(dev', "match") = (IF RulesHolding(dev.rgb) = {} THEN 0 ELSE 1)
                         /\ Count(dev', "match") = 1
                               => \E i \in RulesHolding(dev.rgb) :
                                     Matched(dev') = Join(colorThresholds[i].colorId)
       /\ (pc = "handleButton" /\ ~Toggled(dev')) => Count(dev', "classify") = 0
       /\ (pc \in {"handleEncoder", "loopBody"} /\ ~dev.isColorDetectionEnabled)
             => Count(dev', "classify") = 0]_vars

\* Sensing switched off in Detection mode over a red sample: one pass, one match.
C27_Witness ==
    /\ pc = "handleEncoder" /\ Toggled(dev) /\ ~dev.isColorDetectionEnabled
    /\ dev.currentMode = COLOR_RECOGNITION /\ dev.rgb = <<220, 20, 20>>
    /\ Count(dev, "classify") = 1 /\ Count(dev, "match") = 1 /\ Count(dev, "request") = 1

\* Sensing switched on in Collection mode: no pass in the release.
C27_WitnessOn ==
    /\ pc = "handleEncoder" /\ Toggled(dev) /\ dev.isColorDetectionEnabled
    /\ dev.currentMode = PAINTER_COLLECTION /\ Count(dev, "classify") = 0

-----------------------------------------------------------------------------
(* The probing of the six tables (SpecProbing).                            *)

Collected(d, p) == {i \in Ops(d, "collected") : PainterIndex(d.ev[i].arg) = p}

\* C28: a sensing tick of Collection mode runs one pass over all six tables: each
\* theme whose table holds the sample gets exactly one entry marked, that of the
\* first rule of its table that holds the sample, whether an earlier table
\* matched or not, and the themes are marked in the order of the tables.  No
\* other entry becomes true, and in a tick without a completion the grid is the
\* grid before plus the marked entries.
C28_AllTablesProbed ==
    [][(SensingPass(dev) /\ dev.currentMode = PAINTER_COLLECTION)
          => /\ Count(dev', "classify") = 1
             /\ \A p \in Painters :
                   /\ Cardinality(Collected(dev', p)) = Cardinality(Marked(dev'.rgb, p))
                   /\ \A c \in 0..(PALETTE_SIZE - 1) :
                         /\ Row(dev', p)[c] => (Row(dev, p)[c] \/ c \in Marked(dev'.rgb, p))
                         /\ Count(dev', "complete") = 0
                               => Row(dev', p)[c] = (Row(dev, p)[c] \/ c \in Marked(dev'.rgb, p))
             /\ \A p \in Painters, q \in Painters :
                   \A i \in Collected(dev', p), j \in Collected(dev', q) : p < q => i < j]_vars

\* A sample that the tables of Dali and of Gogh hold: one entry in each theme.
C28_Witness ==
    /\ pc = "handleButton" /\ dev.currentMode = PAINTER_COLLECTION
    /\ dev.rgb = DaliGoghSample(2) /\ Count(dev, "collected") = 2
    /\ Row(dev, 0)[1] /\ Row(dev, 1)[1] /\ ~Row(dev, 0)[0] /\ ~Row(dev, 1)[0]

\* A sample that two rules of one table hold: the entry of the first rule only.
C28_WitnessFirstRule ==
    /\ pc = "handleButton" /\ dev.currentMode = PAINTER_COLLECTION
    /\ dev.rgb = VinciSample(2) /\ Count(dev, "collected") = 1
    /\ InRange(dev.rgb, vinciColors[1]) /\ InRange(dev.rgb, vinciColors[2])
    /\ Row(dev, 5)[0] /\ ~Row(dev, 5)[1]

-----------------------------------------------------------------------------
(* The scan of the flat table (SpecClassifier).                            *)

AllZero(t) ==
    /\ t.rMin = 0 /\ t.rMax = 0 /\ t.gMin = 0 /\ t.gMax = 0 /\ t.bMin = 0 /\ t.bMax = 0

\* The rules that hold a sample, the rules with the all-zero range set aside.
LiveRulesHolding(rgb) ==
    {i \in 1..Len(colorThresholds) :
        ~AllZero(colorThresholds[i]) /\ InRange(rgb, colorThresholds[i])}

\* C29 as stated: a pass of the Detection mode matches the first rule, in table
\* order, whose three inclusive ranges hold the sample, skipping exactly the
\* rules whose range is all zero, and issues at most one request; a pass without
\* such a rule matches nothing, requests nothing and leaves the counters.
C29_Original ==
    [][(SensingPass(dev) /\ dev.currentMode = COLOR_RECOGNITION)
          => LET holding == LiveRulesHolding(dev'.rgb)
             IN  /\ Count(dev', "classify") = 1 /\ Count(dev', "request") <= 1
                 /\ holding # {}
                       => /\ Count(dev', "match") = 1
                          /\ Matched(dev') =
                                Join(colorThresholds[CHOOSE i \in holding :
                                                        \A j \in holding : i <= j].colorId)
                 /\ holding = {}
                       => /\ Count(dev', "match") = 0 /\ Count(dev', "request") = 0
                          /\ dev'.colorCounters = dev.colorCounters]_vars

-----------------------------------------------------------------------------
(* The order of the sleep sequence (SpecModes).                            *)

SleepSequence == <<"sleep", "windDown", "stop", "sensorOff", "armWake", "deepSleep">>

\* The step's history ends with the sleep sequence, each part of it once.
SleepOrder(d) ==
    /\ Len(d.ev) >= Len(SleepSequence)
    /\ \A k \in 1..Len(SleepSequence) :
          /\ d.ev[Len(d.ev) - Len(SleepSequence) + k].op = SleepSequence[k]
          /\ Count(d, SleepSequence[k]) = 1

\* C30: a step that requests sleep runs, in this order and once each, the visual
\* wind-down, the stop of the playback, the disabling of the sensor, the arming
\* of the wake source and the entry into deep sleep, after which nothing runs
\* until the next boot.  The wake source is armed in no other step: it is armed
\* only while the device sleeps.
C30_SleepSequenceOrdered ==
    /\ (Count(dev, "sleep") > 0 \/ Count(dev, "armWake") > 0 \/ Count(dev, "deepSleep") > 0)
          => /\ SleepOrder(dev)
             /\ pc = "asleep" /\ dev.halted
             /\ ~dev.audioRunning /\ ~dev.sensorEnabled
    /\ dev.wakeArmed = (pc = "asleep")
    /\ pc = "asleep" => Count(dev, "armWake") = 1

\* Sleep requested while an asset plays: the asset is stopped before the arming.
C30_Witness ==
    /\ pc = "asleep" /\ dev.wakeArmed /\ SleepOrder(dev)
    /\ \E i \in Ops(dev, "stop") : dev.ev[i].arg # ""

-----------------------------------------------------------------------------
(* What a boot keeps (SpecModes).                                          *)

JustBooted == pc = "handleButton" /\ now = SetupMillis

\* C31: a boot, the first one and every wake from sleep, counts the boot counter
\* up by exactly one and starts from the initial values of every other variable:
\* Detection mode, sensing disabled, all counters 0, all grid entries false, the
\* default volume, nothing playing.  No other step changes the boot counter.
C31_BootKeepsOnlyCounter ==
    /\ [](JustBooted
            => /\ dev.currentMode = COLOR_RECOGNITION /\ ~dev.isColorDetectionEnabled
               /\ dev.colorCounters = NoCounters /\ dev.painterCollectionStatus = NoCollection
               /\ dev.currentVolume = DEFAULT_VOLUME /\ ~dev.audioRunning /\ ~dev.isLooping
               /\ dev.bootCount >= 1
               /\ [dev EXCEPT !.bootCount = 1] = BootState(1))
    /\ [][/\ pc = "asleep" => (JustBooted' /\ dev'.bootCount = dev.bootCount + 1)
          /\ pc # "asleep" => dev'.bootCount = dev.bootCount]_vars

\* The second boot, after some time awake.
C31_Witness ==
    /\ JustBooted /\ dev.bootCount = 2 /\ wall > SetupMillis + SLEEP_PRESS_DURATION

\* Asleep in Collection mode: the boot that follows starts in Detection mode.
C31_WitnessAsleep ==
    /\ pc = "asleep" /\ dev.bootCount = 1 /\ dev.wakeArmed
    /\ dev.currentMode = PAINTER_COLLECTION

\* Asleep in Detection mode with a counter counted and sensing enabled.
C31_WitnessCounted ==
    /\ pc = "asleep" /\ dev.bootCount = 1 /\ dev.wakeArmed
    /\ dev.colorCounters # NoCounters /\ dev.isColorDetectionEnabled

-----------------------------------------------------------------------------
(* The grid after a playback request (SpecRequests).                       *)

\* C32: in Collection mode a step in which a requested asset starts to play
\* leaves every row of the grid all false, the rows of the other themes
\* included.  A sensing tick whose requests all fail (the asset is missing or
\* does not open) clears the rows of the themes it found complete and no other:
\* every other row is the row before plus the entries the sample marks.
C32_GridAfterRequest ==
    [][dev.currentMode = PAINTER_COLLECTION /\ dev'.currentMode = PAINTER_COLLECTION
          => /\ Count(dev', "play") > 0
                   => dev'.painterCollectionStatus = NoCollection
             /\ (SensingPass(dev) /\ Count(dev', "request") > 0 /\ Count(dev', "play") = 0)
                   => \A p \in Painters :
                         IF CompletedRow(dev', p)
                         THEN AllFalse(Row(dev', p))
                         ELSE \A c \in 0..(PALETTE_SIZE - 1) :
                                 Row(dev', p)[c] = (Row(dev, p)[c] \/ c \in Marked(dev'.rgb, p))]_vars

\* The asset of Dali starts to play while Gogh held an entry: the entry is gone.
C32_Witness ==
    /\ pc = "handleButton" /\ dev.currentMode = PAINTER_COLLECTION
    /\ Completed(dev, "P_Dali") /\ Count(dev, "play") = 1
    /\ \E i \in Ops(dev, "gridReset") : dev.ev[i].arg = "entries"
    /\ dev.painterCollectionStatus = NoCollection

\* The asset of Dali is missing: the row of Dali is cleared, Gogh keeps its entry.
C32_WitnessMissing ==
    /\ pc = "handleButton" /\ dev.currentMode = PAINTER_COLLECTION
    /\ Completed(dev, "P_Dali") /\ Count(dev, "missing") = 1 /\ Count(dev, "play") = 0
    /\ AllFalse(Row(dev, 0)) /\ Row(dev, 1)[0]

\* The asset of Dali does not open: the same.
C32_WitnessBroken ==
    /\ pc = "handleButton" /\ dev.currentMode = PAINTER_COLLECTION
    /\ Completed(dev, "P_Dali") /\ Count(dev, "playFailed") = 1 /\ Count(dev, "play") = 0
    /\ AllFalse(Row(dev, 0)) /\ Row(dev, 1)[0]

-----------------------------------------------------------------------------
(* What changes a counter (SpecDetection).                                 *)

MatchOf(d, F) == Count(d, "match") = 1 /\ FamilyOf(Matched(d)) = F

\* C33: between two boots the counter of family F changes only in a step that
\* matches an identity of F in Detection mode (one up, or back to 0 from
\* threshold - 1) or in a step that switches the mode (to 0).  A step without a
\* match and a step that matches another family leave it as it is, whatever
\* happened to the request of the match.
C33_CounterChangedOnlyByOwnFamily ==
    [][pc # "asleep"
          => \A F \in Families :
                /\ dev'.colorCounters[F] # dev.colorCounters[F]
                      => \/ /\ MatchOf(dev', F) /\ dev.currentMode = COLOR_RECOGNITION
                            /\ dev'.colorCounters[F] =
                                  (IF dev.colorCounters[F] = COLOR_COUNT_THRESHOLD - 1
                                   THEN 0 ELSE dev.colorCounters[F] + 1)
                         \/ /\ Count(dev', "switchMode") = 1 /\ dev'.colorCounters[F] = 0
                /\ (MatchOf(dev', F) /\ Count(dev', "switchMode") = 0)
                      => dev'.colorCounters[F] # dev.colorCounters[F]]_vars

\* A match of the family B with the count of the family R at 2: the count stays.
C33_Witness ==
    /\ pc = "handleButton" /\ MatchOf(dev, 4) /\ dev.currentMode = COLOR_RECOGNITION
    /\ dev.colorCounters[0] = 2 /\ dev.colorCounters[4] = 1

\* A sensing tick without a match with the count of the family R at 2: it stays.
C33_WitnessNoMatch ==
    /\ pc = "handleButton" /\ dev.currentMode = COLOR_RECOGNITION
    /\ Count(dev, "classify") = 1 /\ Count(dev, "match") = 0 /\ dev.rgb = NoColor
    /\ dev.colorCounters[0] = 2

-----------------------------------------------------------------------------
(* Rotations at a bound of the volume (SpecBound).                         *)

PastBound(d, dir) ==
    \/ d.currentVolume = MIN_VOLUME /\ dir = "cw"
    \/ d.currentVolume = MAX_VOLUME /\ dir = "ccw"

\* A hold whose rotations all found the volume at a bound.
BoundHold == hold.rotated /\ ~hold.adjusted

\* C34: a volume rotation that finds the volume at the bound it turns towards
\* (clockwise at 0, counter-clockwise at 21) leaves the volume and the
\* volume-adjusted flag as they are.  A hold whose rotations were all of that
\* kind toggles detection once when it is released under the mode-switch
\* threshold, and switches the mode once when a tick samples it at or over the
\* mode-switch threshold and under the sleep threshold.
C34_RotationAtBoundLeavesHold ==
    /\ [](/\ (BoundHold /\ hold.released /\ hold.d < MODE_SWITCH_PRESS_DURATION)
             => (hold.toggles = 1 /\ hold.flips = 1 /\ hold.switches = 0)
          /\ (BoundHold /\ hold.crossed) => hold.switches = 1)
    /\ [][pc = "handleEncoder"
             => /\ (Count(dev', "volume") = 1 /\ PastBound(dev, Emitted(dev')))
                      => /\ Count(dev', "bound") = 1
                         /\ dev'.currentVolume = dev.currentVolume
                         /\ dev'.audioVolume = dev.audioVolume
                         /\ dev'.volumeAdjustedWhilePressed = dev.volumeAdjustedWhilePressed
                /\ Count(dev', "bound") > 0
                      => /\ Count(dev', "volume") = 1 /\ PastBound(dev, Emitted(dev'))
                         /\ dev.isEncoderPressed]_vars

\* Clockwise at 0 in a hold released after 1000 ms: the release toggles.
C34_Witness ==
    /\ pc = "handleEncoder" /\ Count(dev, "toggle") = 1 /\ BoundHold /\ hold.released
    /\ hold.d = 1000 /\ dev.currentVolume = MIN_VOLUME

\* Counter-clockwise at 21 in a hold released after 1000 ms: the release toggles.
C34_WitnessMax ==
    /\ pc = "handleEncoder" /\ Count(dev, "toggle") = 1 /\ BoundHold /\ hold.released
    /\ hold.d = 1000 /\ dev.currentVolume = MAX_VOLUME

\* Clockwise at 0 in a hold sampled at 3000 ms: the mode switches.
C34_WitnessSwitch ==
    /\ pc = "handleEncoder" /\ Count(dev, "switchMode") = 1 /\ BoundHold /\ hold.crossed
    /\ dev.currentVolume = MIN_VOLUME /\ dev.currentMode = PAINTER_COLLECTION

\* Counter-clockwise at 21 in a hold sampled at 3000 ms: the mode switches.
C34_WitnessSwitchMax ==
    /\ pc = "handleEncoder" /\ Count(dev, "switchMode") = 1 /\ BoundHold /\ hold.crossed
    /\ dev.currentVolume = MAX_VOLUME /\ dev.currentMode = PAINTER_COLLECTION

-----------------------------------------------------------------------------
(* Sleep in a hold with a volume adjustment (SpecArbiter).                 *)

\* C35: a hold in which the volume was adjusted and which a tick samples low at
\* or over the sleep threshold requests sleep in that tick, once, and toggles
\* nothing: the step that samples the button low with the hold armed and the
\* elapsed time at or over the threshold requests sleep whatever the
\* volume-adjusted flag says.
C35_AdjustedHoldStillSleeps ==
    /\ []((hold.adjusted /\ hold.lowMax >= SLEEP_PRESS_DURATION)
            => (hold.sleeps = 1 /\ hold.toggles = 0 /\ pc = "asleep" /\ dev.halted))
    /\ [][(/\ pc = "handleButton" /\ dev'.lastButtonState = LOW /\ dev.lastButtonState = LOW
           /\ dev.isSleepPressing
           /\ now' - dev.sleepPressStartTime >= SLEEP_PRESS_DURATION)
             => (Count(dev', "sleep") = 1 /\ pc' = "asleep")]_vars

\* Asleep after a hold of 5000 ms in which the volume was adjusted.
C35_Witness ==
    /\ pc = "asleep" /\ hold.adjusted /\ hold.lowMax = SLEEP_PRESS_DURATION
    /\ hold.sleeps = 1 /\ dev.volumeAdjustedWhilePressed
    /\ dev.currentVolume # DEFAULT_VOLUME /\ Count(dev, "sleep") = 1

-----------------------------------------------------------------------------
(* A late release (SpecArbiter).                                           *)

LateRelease == hold.released /\ hold.d >= MODE_SWITCH_PRESS_DURATION

\* C36: a hold whose release edge is sampled at or over the mode-switch
\* threshold toggles nothing; when no tick sampled it low at or over the
\* threshold it switches no mode and requests no sleep either, so it changes
\* neither the sensing flag nor the mode.  In every hold the toggles and the mode
\* switches together are at most one.
C36_LateReleaseNoToggle ==
    /\ LateRelease => (hold.toggles = 0 /\ hold.flips = 0)
    /\ (LateRelease /\ hold.lowMax < MODE_SWITCH_PRESS_DURATION)
          => (hold.switches = 0 /\ hold.sleeps = 0 /\ ~hold.crossed)
    /\ hold.toggles + hold.switches <= 1

\* A release sampled at 3000 ms after a press with no sample in between.
C36_Witness ==
    /\ pc = "handleEncoder" /\ Count(dev, "release") = 1 /\ LateRelease
    /\ hold.d = MODE_SWITCH_PRESS_DURATION /\ hold.lowMax = 0 /\ ~hold.adjusted
    /\ Count(dev, "toggle") = 0 /\ dev.currentMode = COLOR_RECOGNITION
    /\ ~dev.isColorDetectionEnabled /\ dev.bootCount = 1

\* A release sampled at 4000 ms after the button was sampled low at 1000 ms.
C36_WitnessSampled ==
    /\ pc = "handleEncoder" /\ Count(dev, "release") = 1 /\ LateRelease
    /\ hold.d = 4000 /\ hold.lowMax = 1000 /\ ~hold.adjusted /\ hold.switches = 0

=============================================================================
